---- MODULE Spec2Model ----
(***************************************************************************)
(* Model of the seeding script of the Event Management System              *)
(* (scripts/seed.py and scripts/modules/*.py).                             *)
(*                                                                         *)
(* The script is a sequential client of REST services.  The services are   *)
(* the environment: every answer a request can get (a status code, a body  *)
(* with or without the expected fields, an exception of the HTTP library)  *)
(* is drawn with \E from the sets below.  Answers other than the nominal   *)
(* one are limited by the budget MaxFaults per run.                        *)
(*                                                                         *)
(* Specifications:                                                         *)
(*   SpecMain   - a run of scripts/seed.py (main and its __main__ handler) *)
(*   SpecStages - a call of one stage function of the modules              *)
(*   SpecRerun  - the booking stage run twice against the same service     *)
(*   SpecAccept - a call of one of the invitation acceptance functions     *)
(*   SpecEvents - the time window of one event and of its session          *)
(*   SpecDates  - a call of one date generator of date_management.py       *)
(*   SpecBackfill - the backfill of the booking dates by main              *)
(***************************************************************************)
EXTENDS Integers, Sequences, FiniteSets, TLC

VARIABLES
    pc,               \* position of the run
    exit_code,        \* exit code of the process, NoExit while it runs
    exc,              \* the exception that ended the run, "" if none
    log,              \* requests issued so far, in order
    faults,           \* answers other than the nominal one, so far
    outage,           \* auth-service outage during registration, "none" if up
    conn_ok,          \* result of test_api_connectivity
    login_result,     \* value returned by login_admin
    admin_token,      \* main's admin_token
    admin_user_id,    \* main's admin_user_id
    stages,           \* stages of the run entered so far, in order
    reg_i,            \* next registration attempt, 1..NumSpeakers+NumUsers
    speakers,         \* seed_users_and_speakers: speakers
    users,            \* seed_users_and_speakers: users
    all_user_emails,  \* seed_users_and_speakers: all_user_emails
    got_502_errors,   \* seed_users_and_speakers: got_502_errors
    reg_results,      \* success flag returned by each register_user call, in order
    reg_last,         \* value returned by the latest register_user call
    reg_resp,         \* answer to the latest register request
    reg_login_resp,   \* answer to the id login of the latest register_user call
    login_resp,       \* answer to the admin login request
    prompt_answer,    \* what the user typed at "Continue anyway?", None if not asked
    fn,               \* the stage function that is called (SpecStages)
    events,           \* its events argument
    speaker_emails,   \* its speaker_emails argument
    published_events, \* the events it kept as PUBLISHED
    idx,              \* position of its loop over users or speaker profiles
    pending,          \* sampled events the current user or speaker still has to get
    login_resps,      \* answer to the login of each user processed so far
    calls,            \* each creation call so far: who, what, the result
    last_call,        \* the latest creation call, with the answer it got
    successful_bookings,
    failed_bookings,
    created_bookings,
    ret,              \* what the stage function returned
    user_token,       \* token of the user or speaker the loop is at
    booked,           \* booking service: the (email, event id) pairs it holds
    runs,             \* how many times the stage was started again on this service
    speaker_profiles, \* the list get_all_speaker_profiles builds
    stats,            \* stats of the invitation functions
    invitation_data,  \* invitation_data of the invitation functions
    invitations,      \* speaker service: the invitations it holds, with their status
    inbox,            \* speaker service: the messages it holds, with their status
    fetched,          \* ids of the invitations the acceptance functions were given
    venue,            \* create_event: the venue, with openingTime and closingTime
    candidate,        \* create_event: what generate_event_dates returned
    start_date,       \* create_event: start_date after the adjustment
    end_date,         \* create_event: end_date after the adjustment
    session_start,    \* create_session_for_event: session_start
    session_end,      \* create_session_for_event: session_end
    num,              \* date_management: the number of dates asked for
    event_start_date, \* date_management: the event_start_date argument
    creation_dates,   \* date_management: the creation_dates argument
    booking_dates_list, \* main: booking_dates_list
    updated,          \* update_booking_dates: updated
    accepted_event_ids, \* seed_speaker_data: accepted_event_ids of the speaker the loop is at
    num_left,         \* seed_speaker_data: iterations the inner loop still has to make
    registered,       \* auth service: the email and password of each registered account
    attempt           \* the email and password of the latest login a stage prepared

bookingVars == <<login_resps, successful_bookings, failed_bookings, created_bookings, user_token,
                 booked, runs>>
inviteVars == <<speaker_profiles, stats, invitation_data>>
acceptVars == <<invitations, inbox, fetched>>
eventVars == <<venue, candidate, start_date, end_date, session_start, session_end>>
dateVars == <<num, event_start_date, creation_dates, booking_dates_list, updated>>
dataVars == <<accepted_event_ids, num_left>>
credVars == <<registered, attempt>>
stageVars == <<fn, events, speaker_emails, published_events, idx, pending, calls, last_call, ret,
               bookingVars, inviteVars, acceptVars, eventVars, dateVars, dataVars,
               credVars>>
regVars == <<reg_i, speakers, users, all_user_emails, got_502_errors, reg_results, reg_last, outage,
             reg_resp, reg_login_resp>>

(***************************************************************************)
(* Bounds of the model                                                     *)
(***************************************************************************)
MaxFaults == 1
MaxLoad == 4                \* events times users (or speakers) of a stage call

(***************************************************************************)
(* Values                                                                  *)
(***************************************************************************)
None == "<None>"            \* Python's None
NoExit == 0 - 1              \* the process has not exited
HttpNone == 0               \* http_status None: no response was received

Truthy(x) == x # None /\ x # ""
Min(a, b) == IF a < b THEN a ELSE b

\* what a function returned: its shape (int, pair, dict) and the value
Returned(shape, value) == [shape |-> shape, value |-> value]
NotReturned == Returned("", <<>>)
\* "stats = {'invitations_created': 0, 'messages_sent': 0}"
NoStats == [invitations_created |-> 0, messages_sent |-> 0]

NumSpeakers == 5
NumUsers == 10

\* no login prepared yet
NoAttempt == [stage |-> "", email |-> <<>>, password |-> <<>>]

SpeakerEmail(i) == "speaker" \o ToString(i) \o "@test.com"
SpeakerPassword(i) == "Speaker" \o ToString(i) \o "123!"
UserEmail(i) == "user" \o ToString(i) \o "@test.com"
UserPassword(i) == "User" \o ToString(i) \o "123!"

\* utils.py: the admin credentials when the environment sets none
ADMIN_EMAIL == "admin@ems.com"
ADMIN_PASSWORD == "Admin123!"
\* seed.py 126-129: the defaults the failure message of step 0 names
SeededAdminEmail == "admin@eventmanagement.com"
SeededAdminPassword == "Admin123!"

\* the id the auth service gives the account of an email
ServerUserId(email) == "id:" \o email

Req(kind, who, what) == [kind |-> kind, who |-> who, what |-> what]

(***************************************************************************)
(* Answers of the services.  exc # "" is an exception raised by the HTTP   *)
(* call; json = FALSE is a body that response.json() cannot parse.         *)
(***************************************************************************)
Resp(status, json, token, id, error) ==
    [exc |-> "", status |-> status, json |-> json, token |-> token, id |-> id, error |-> error]
Raised(e) ==
    [exc |-> e, status |-> HttpNone, json |-> FALSE, token |-> "", id |-> "", error |-> ""]
NoAnswer == Raised("<no request>")
\* register_user has not been called
NoResult == <<FALSE, None, HttpNone>>
NoCall == [who |-> "", what |-> "", resp |-> NoAnswer, result |-> <<FALSE, None>>]

ErrorMessages == {"User with this email already exists", "USER ALREADY EXISTS", "Invalid email format", ""}

MentionsAlreadyExists_CaseSensitive(msg) == msg = "User with this email already exists"
\* 'already exists' in error_msg.lower() or 'User with this email already exists' in error_msg
MentionsAlreadyExists(msg) ==
    LET lower == CASE msg = "User with this email already exists" -> "user with this email already exists"
                   [] msg = "USER ALREADY EXISTS" -> "user already exists"
                   [] msg = "Invalid email format" -> "invalid email format"
                   [] OTHER -> msg
    IN  \/ lower \in {"user with this email already exists", "user already exists"}
        \/ msg = "User with this email already exists"

LoginOk(email) == Resp(200, TRUE, "tok:" \o email, ServerUserId(email), "")
LoginAnswers(email, faulty) ==
    {LoginOk(email)} \cup
    IF faulty
    THEN {Resp(200, TRUE, "", ServerUserId(email), ""),
          Resp(200, TRUE, "tok:" \o email, "", ""),
          Resp(200, FALSE, "", "", ""),
          Resp(401, TRUE, "", "", "Invalid credentials"),
          Resp(500, FALSE, "", "", ""),
          Raised("ConnectionError"), Raised("Timeout")}
    ELSE {}

RegisterOk(email) == Resp(201, TRUE, "", ServerUserId(email), "")
RegisterFaults(email) ==
    {Resp(201, TRUE, "", "", ""), Resp(201, FALSE, "", "", "")}
    \cup {Resp(400, TRUE, "", "", m) : m \in ErrorMessages}
    \cup {Resp(400, FALSE, "", "", ""),
          Resp(500, TRUE, "", "", "Internal error"), Resp(502, FALSE, "", "", ""),
          Resp(503, FALSE, "", "", ""),
          Raised("ConnectionError"), Raised("Timeout"), Raised("Exception")}

OutageKinds == {"502", "503", "ConnectionError"}
OutageAnswer(kind) ==
    CASE kind = "502" -> Resp(502, FALSE, "", "", "")
      [] kind = "503" -> Resp(503, FALSE, "", "", "")
      [] OTHER -> Raised("ConnectionError")

(***************************************************************************)
(* user_seeding.py                                                         *)
(***************************************************************************)
\* get_user_id_by_login: the user id of a 200 answer ('' when the body has none)
GetUserIdByLogin(resp) ==
    IF resp.exc # "" THEN None
    ELSE IF resp.status = 200
         THEN IF resp.json THEN resp.id ELSE None
         ELSE None

\* register_user: <<success, user_id, http_status>> for the answer to the
\* register request and, when it is asked for, the answer to the id login
RegisterUser(resp, loginResp) ==
    IF resp.exc # "" THEN <<FALSE, None, HttpNone>>
    ELSE IF resp.status = 201
         THEN IF resp.json THEN <<TRUE, resp.id, 201>> ELSE <<FALSE, None, HttpNone>>
    ELSE IF resp.status = 400
         THEN IF resp.json /\ MentionsAlreadyExists(resp.error)
              THEN LET user_id == GetUserIdByLogin(loginResp)
                   IN  IF Truthy(user_id) THEN <<TRUE, user_id, 400>> ELSE <<TRUE, None, 400>>
              ELSE <<FALSE, None, 400>>
    ELSE <<FALSE, None, resp.status>>

\* whether register_user issues the login of get_user_id_by_login
RegisterAsksLogin(resp) ==
    resp.exc = "" /\ resp.status = 400 /\ resp.json /\ MentionsAlreadyExists(resp.error)

\* login_admin: <<success, token, user_id>>
LoginAdmin(resp) ==
    IF resp.exc # "" THEN <<FALSE, None, None>>
    ELSE IF resp.status = 200
         THEN IF ~resp.json THEN <<FALSE, None, None>>
              ELSE IF Truthy(resp.token) THEN <<TRUE, resp.token, resp.id>>
              ELSE <<FALSE, None, None>>
    ELSE <<FALSE, None, None>>

\* the email and role of registration attempt i: speakers first, then users
RegEmail(i) == IF i <= NumSpeakers THEN SpeakerEmail(i) ELSE UserEmail(i - NumSpeakers)
RegRole(i) == IF i <= NumSpeakers THEN "SPEAKER" ELSE "USER"

\* "if status == 502: got_502_errors = True"
Sets502Flag(status) == status = 502

KeepsEmail_NeedsId(result) == result[1] /\ Truthy(result[2])
\* "if success:" - whether the loops keep the email of an attempt
KeepsEmail(result) == result[1]

\* the value seed_users_and_speakers returns
SeedUsersReturn(spk, usr, emails, flag) == <<spk, usr, emails, flag>>

(***************************************************************************)
(* seed.py                                                                 *)
(***************************************************************************)
\* test_api_connectivity, from the answers to the health and register probes
TestApiConnectivity(health, probe) ==
    IF health.exc = "" /\ health.status \in {200, 404} THEN TRUE
    ELSE IF probe.exc = "ConnectionError" THEN FALSE
    ELSE IF probe.exc # "" THEN TRUE
    ELSE IF probe.status \in {201, 400, 500} THEN TRUE
    ELSE IF probe.status = 502 THEN FALSE
    ELSE TRUE

ProbeNeeded(health) == ~(health.exc = "" /\ health.status \in {200, 404})

HealthAnswers == {Resp(200, TRUE, "", "", ""), Resp(404, FALSE, "", "", ""),
                  Resp(502, FALSE, "", "", ""), Raised("ConnectionError")}
ProbeAnswers == {Resp(201, TRUE, "", "", ""), Resp(400, TRUE, "", "", ""),
                 Resp(502, FALSE, "", "", ""), Resp(503, FALSE, "", "", ""),
                 Raised("ConnectionError"), Raised("Timeout")}

\* str.lower() on the answers the prompt can get
Lower(s) == IF s = "Y" THEN "y" ELSE IF s = "N" THEN "n" ELSE s
PromptAnswers == {"y", "Y", "n", "N", ""}

\* "if response.lower() != 'y': sys.exit(1)"
PromptDeclines(answer) == Lower(answer) # "y"

MainLoginFailed_NoIdCheck(r) == ~r[1] \/ ~Truthy(r[2])
\* "if not login_success or not admin_token or not admin_user_id"
MainLoginFailed(r) == ~r[1] \/ ~Truthy(r[2]) \/ ~Truthy(r[3])

PromptExitCode_Zero == 1 - 1
\* the codes of the sys.exit calls of main and of the __main__ handlers
PromptExitCode == 1
LoginExitCode == 1
InterruptExitCode == 1
HandlerExitCode == 1

\* the number of names main unpacks the value of seed_users_and_speakers into
MainUnpackTargets == 6

AfterConnectivity_SkipsLogin == "register"
\* where main goes once the connectivity check is over
AfterConnectivity == "login"

StageOrder == <<"AdminAuthenticated", "UsersRegistered", "DatesBackfilled", "UsersActivated",
                "EventsCreated", "BookingsCreated", "InvitationsCreated", "InvitationsResolved",
                "MaterialsAndMessagesSeeded", "Done">>

Running == pc \notin {"exit"}

\* sys.exit(code), and the __main__ handlers of an exception e
Exit(code, e) == pc' = "exit" /\ exit_code' = code /\ exc' = e

\* no stage function is called
StageIdle ==
    /\ fn = "" /\ events = <<>> /\ speaker_emails = <<>> /\ published_events = <<>>
    /\ idx = 0 /\ pending = <<>> /\ login_resps = <<>> /\ calls = <<>> /\ last_call = NoCall
    /\ successful_bookings = 0 /\ failed_bookings = 0 /\ created_bookings = <<>>
    /\ ret = NotReturned /\ user_token = None /\ booked = {} /\ runs = 0
    /\ speaker_profiles = <<>> /\ stats = NoStats /\ invitation_data = <<>>
    /\ invitations = <<>> /\ inbox = <<>> /\ fetched = {}
    /\ venue = None /\ candidate = None /\ start_date = None /\ end_date = None
    /\ session_start = None /\ session_end = None
    /\ num = 0 /\ event_start_date = None /\ creation_dates = <<>> /\ booking_dates_list = <<>>
    /\ updated = 0
    /\ accepted_event_ids = <<>> /\ num_left = 0
    /\ registered = <<>> /\ attempt = NoAttempt

InitMain ==
    /\ pc = "connectivity"
    /\ exit_code = NoExit
    /\ exc = ""
    /\ log = <<>>
    /\ faults = 0
    /\ outage \in OutageKinds \cup {"none"}
    /\ conn_ok = TRUE
    /\ login_result = <<FALSE, None, None>>
    /\ admin_token = None
    /\ admin_user_id = None
    /\ stages = <<>>
    /\ reg_i = 1
    /\ speakers = <<>>
    /\ users = <<>>
    /\ all_user_emails = <<>>
    /\ got_502_errors = FALSE
    /\ reg_results = <<>>
    /\ reg_last = NoResult
    /\ reg_resp = NoAnswer
    /\ reg_login_resp = NoAnswer
    /\ login_resp = NoAnswer
    /\ prompt_answer = None
    /\ StageIdle

\* seed.py:99-112, the connectivity check
TestConnectivity ==
    /\ pc = "connectivity"
    /\ \E health \in HealthAnswers, probe \in ProbeAnswers :
         LET ok == TestApiConnectivity(health, probe)
         IN  /\ conn_ok' = ok
             /\ log' = log \o <<Req("health", "", "")>>
                           \o (IF ProbeNeeded(health) THEN <<Req("probe", "test@test.com", "")>> ELSE <<>>)
             /\ pc' = IF ok THEN AfterConnectivity ELSE "prompt"
    /\ UNCHANGED <<exit_code, exc, faults, login_result, admin_token, admin_user_id, stages,
                   login_resp, prompt_answer>>
    /\ UNCHANGED regVars
    /\ UNCHANGED stageVars

\* seed.py:109-112, "Continue anyway? (y/N)"
PromptContinue ==
    /\ pc = "prompt"
    /\ \E answer \in PromptAnswers :
         /\ prompt_answer' = answer
         /\ IF PromptDeclines(answer)
            THEN Exit(PromptExitCode, "SystemExit")
            ELSE pc' = AfterConnectivity /\ UNCHANGED <<exit_code, exc>>
    /\ UNCHANGED <<log, faults, conn_ok, login_result, admin_token, admin_user_id, stages, login_resp>>
    /\ UNCHANGED regVars
    /\ UNCHANGED stageVars

\* seed.py:114-134, step 0
VerifyAdmin ==
    /\ pc = "login"
    /\ \E resp \in LoginAnswers(ADMIN_EMAIL, TRUE) :
         LET r == LoginAdmin(resp)
         IN  /\ login_result' = r
             /\ login_resp' = resp
             /\ log' = Append(log, Req("admin_login", ADMIN_EMAIL, ADMIN_PASSWORD))
             /\ IF MainLoginFailed(r)
                THEN /\ Exit(LoginExitCode, "SystemExit")
                     /\ UNCHANGED <<admin_token, admin_user_id, stages>>
                ELSE /\ pc' = "register"
                     /\ admin_token' = r[2]
                     /\ admin_user_id' = r[3]
                     /\ stages' = Append(stages, "AdminAuthenticated")
                     /\ UNCHANGED <<exit_code, exc>>
    /\ UNCHANGED <<faults, conn_ok, prompt_answer>>
    /\ UNCHANGED regVars
    /\ UNCHANGED stageVars

\* the answers attempt i can get
RegisterAnswersNow(email) ==
    IF outage # "none" THEN {OutageAnswer(outage)}
    ELSE {RegisterOk(email)} \cup (IF faults < MaxFaults THEN RegisterFaults(email) ELSE {})

\* user_seeding.py:262-293, one iteration of the registration loops
RegisterStep ==
    /\ pc = "register"
    /\ reg_i <= NumSpeakers + NumUsers
    /\ LET email == RegEmail(reg_i)
       IN \E resp \in RegisterAnswersNow(email), loginResp \in LoginAnswers(email, TRUE) :
            LET asks == RegisterAsksLogin(resp)
                result == RegisterUser(resp, loginResp)
                entry == [email |-> email, user_id |-> result[2]]
            IN  /\ asks \/ loginResp = LoginOk(email)
                /\ log' = log \o <<Req("register", email, RegRole(reg_i))>>
                              \o (IF asks THEN <<Req("login", email, "")>> ELSE <<>>)
                /\ faults' = IF outage = "none" /\ resp # RegisterOk(email) THEN faults + 1 ELSE faults
                /\ reg_results' = Append(reg_results, result[1])
                /\ reg_last' = result
                /\ reg_resp' = resp
                /\ reg_login_resp' = IF asks THEN loginResp ELSE NoAnswer
                /\ got_502_errors' = (got_502_errors \/ Sets502Flag(result[3]))
                /\ all_user_emails' = IF KeepsEmail(result) THEN Append(all_user_emails, email)
                                      ELSE all_user_emails
                /\ speakers' = IF KeepsEmail(result) /\ reg_i <= NumSpeakers
                               THEN Append(speakers, entry) ELSE speakers
                /\ users' = IF KeepsEmail(result) /\ reg_i > NumSpeakers
                            THEN Append(users, entry) ELSE users
    /\ reg_i' = reg_i + 1
    /\ IF reg_i = NumSpeakers + NumUsers
       THEN pc' = "unpack" /\ stages' = Append(stages, "UsersRegistered")
       ELSE pc' = pc /\ stages' = stages
    /\ UNCHANGED <<exit_code, exc, outage, conn_ok, login_result, admin_token, admin_user_id,
                   login_resp, prompt_answer>>
    /\ UNCHANGED stageVars

\* seed.py:140, the assignment of the returned tuple to main's names
UnpackRegistration ==
    /\ pc = "unpack"
    /\ LET returned == SeedUsersReturn(speakers, users, all_user_emails, got_502_errors)
       IN  IF Len(returned) = MainUnpackTargets
           THEN pc' = "update_user_dates" /\ UNCHANGED <<exit_code, exc>>
           ELSE Exit(HandlerExitCode, "ValueError")
    /\ UNCHANGED <<log, faults, conn_ok, login_result, admin_token, admin_user_id, stages,
                   login_resp, prompt_answer>>
    /\ UNCHANGED regVars
    /\ UNCHANGED stageVars

\* seed.py:389-392, Ctrl-C at any point of the run
Interrupt ==
    /\ Running
    /\ Exit(InterruptExitCode, "KeyboardInterrupt")
    /\ UNCHANGED <<log, faults, conn_ok, login_result, admin_token, admin_user_id, stages,
                   login_resp, prompt_answer>>
    /\ UNCHANGED regVars
    /\ UNCHANGED stageVars

vars == <<pc, exit_code, exc, log, faults, conn_ok, login_result, admin_token, admin_user_id,
          stages, reg_i, speakers, users, all_user_emails, got_502_errors, reg_results, reg_last, outage,
          reg_resp, reg_login_resp, login_resp, prompt_answer,
          fn, events, speaker_emails, published_events, idx, pending, login_resps, calls,
          last_call, successful_bookings, failed_bookings, created_bookings, ret, user_token,
          booked, runs, speaker_profiles, stats, invitation_data, invitations, inbox, fetched,
          venue, candidate, start_date, end_date, session_start, session_end,
          num, event_start_date, creation_dates, booking_dates_list, updated,
          accepted_event_ids, num_left, registered, attempt>>

NextMain ==
    \/ TestConnectivity
    \/ PromptContinue
    \/ VerifyAdmin
    \/ RegisterStep
    \/ UnpackRegistration
    \/ Interrupt

SpecMain == InitMain /\ [][NextMain]_vars

(***************************************************************************)
(* The arguments of a stage function                                       *)
(***************************************************************************)
EventId(i) == "ev" \o ToString(i)
EventStatuses == {"PUBLISHED", "DRAFT"}

\* an event as create_event returns it
Event(i, status) ==
    [id |-> EventId(i), name |-> "Event " \o ToString(i), status |-> status,
     bookingStartDate |-> 1000 * i]

\* the event lists of length n the event service can have answered with
EventLists(n) == {[i \in 1..n |-> Event(i, st[i])] : st \in [1..n -> EventStatuses]}

\* users as seed_users_and_speakers returns them
UserList(n) == [i \in 1..n |-> [email |-> UserEmail(i), user_id |-> ServerUserId(UserEmail(i))]]
SpeakerEmailList(n) == [i \in 1..n |-> SpeakerEmail(i)]

\* the sizes of the arguments: n events and m users or speakers
ArgumentSizes == {nm \in (0..MaxLoad) \X (0..MaxLoad) : nm[1] * nm[2] <= MaxLoad}

(***************************************************************************)
(* booking_seeding.py                                                      *)
(***************************************************************************)
BookingFunctions == {"seed_bookings", "seed_bookings_staggered"}

\* the id the booking service gives a booking
ServerBookingId(email, event_id) == "bk:" \o email \o ":" \o event_id

BookingOk(email, event_id) == Resp(201, TRUE, "", ServerBookingId(email, event_id), "")
BookingFaults ==
    {Resp(201, TRUE, "", "", ""), Resp(201, FALSE, "", "", ""),
     Resp(409, TRUE, "", "", "Event is full"), Resp(401, TRUE, "", "", "Unauthorized"),
     Raised("ConnectionError")}

\* login_user: the token of a 200 answer ('' when the body has none), else None
LoginUser(resp) ==
    IF resp.exc # "" THEN None
    ELSE IF resp.status = 200
         THEN IF resp.json THEN resp.token ELSE None
         ELSE None

\* a create_booking that takes 409 for a success
CreateBooking_ConflictSucceeds(resp) ==
    IF resp.exc # "" THEN <<FALSE, None>>
    ELSE IF resp.status \in {201, 409}
         THEN IF resp.json THEN <<TRUE, IF resp.id = "" THEN None ELSE resp.id>>
              ELSE <<FALSE, None>>
    ELSE <<FALSE, None>>

\* create_booking: <<success, booking_id>>
CreateBooking(resp) ==
    IF resp.exc # "" THEN <<FALSE, None>>
    ELSE IF resp.status = 201
         THEN IF resp.json THEN <<TRUE, IF resp.id = "" THEN None ELSE resp.id>>
              ELSE <<FALSE, None>>
    ELSE IF resp.status = 409 THEN <<FALSE, None>>
    ELSE <<FALSE, None>>

IsPublished_AnyStatus(e) == TRUE
\* "e.get('status') == 'PUBLISHED'"
IsPublished(e) == e.status = "PUBLISHED"

\* "published_events = [e for e in events if e.get('status') == 'PUBLISHED']"
PublishedOf(evs) == SelectSeq(evs, IsPublished)

\* "min(4, len(published_events))" of the booking loops
MaxRegistrations == 4

\* random.randint(a, b): the values it can return; it raises ValueError when a > b
RandInt(a, b) == a..b

Sample_WithReplacement(population, k) ==
    {[i \in 1..k |-> population[f[i]]] : f \in [1..k -> DOMAIN population]}
\* random.sample(population, k): k elements at different positions, in any order
Sample(population, k) ==
    {[i \in 1..k |-> population[f[i]]] :
        f \in {g \in [1..k -> DOMAIN population] : \A a, b \in 1..k : a # b => g[a] # g[b]}}

BookingCounts_SuccessOnly(result) == result[1]
\* "if success and booking_id"
BookingCounts(result) == result[1] /\ Truthy(result[2])

\* what the early returns of the function return for "nothing to do"
BookingEarlyReturn(f) ==
    IF f = "seed_bookings" THEN Returned("pair", <<0, <<>>>>) ELSE Returned("int", <<0>>)

Call(who, what, result) == [who |-> who, what |-> what, result |-> result, run |-> runs]
CallWithAnswer(who, what, resp, result) ==
    [who |-> who, what |-> what, resp |-> resp, result |-> result]

mainOnlyVars == <<exit_code, conn_ok, login_result, admin_token, admin_user_id, stages, reg_i,
                  speakers, all_user_emails, got_502_errors, reg_results, reg_last, outage, reg_resp,
                  reg_login_resp, login_resp, prompt_answer>>

\* a step of the booking functions leaves main's variables and the arguments alone
StageFrame ==
    UNCHANGED mainOnlyVars /\ UNCHANGED users /\ UNCHANGED <<eventVars, dateVars, dataVars, credVars>>
BookingFrame == StageFrame /\ UNCHANGED inviteVars /\ UNCHANGED acceptVars /\ UNCHANGED exc

\* seed_bookings 96-115, seed_bookings_staggered 171-191: the guards and the filter
BookingsStart ==
    /\ pc = "start"
    /\ fn \in BookingFunctions
    /\ IF events = <<>> \/ users = <<>> \/ PublishedOf(events) = <<>>
       THEN /\ ret' = BookingEarlyReturn(fn)
            /\ pc' = "returned"
            /\ UNCHANGED <<published_events, idx>>
       ELSE /\ published_events' = PublishedOf(events)
            /\ idx' = 1
            /\ pc' = "user_loop"
            /\ ret' = ret
    /\ successful_bookings' = 0
    /\ failed_bookings' = 0
    /\ created_bookings' = <<>>
    /\ UNCHANGED <<log, faults, fn, events, speaker_emails, pending, login_resps, calls, last_call,
                   user_token, booked, runs>>
    /\ BookingFrame

\* the answers the login of a stage can get
StageLoginAnswers(email) ==
    {LoginOk(email)} \cup
    IF faults < MaxFaults
    THEN {Resp(200, TRUE, "", ServerUserId(email), ""), Resp(200, FALSE, "", "", ""),
          Resp(401, TRUE, "", "", "Invalid credentials"), Raised("ConnectionError")}
    ELSE {}

\* seed_bookings 118-130, seed_bookings_staggered 194-211: login and sampling
BookingsNextUser ==
    /\ pc = "user_loop"
    /\ idx <= Len(users)
    /\ LET email == users[idx].email
       IN \E resp \in StageLoginAnswers(email) :
            LET token == LoginUser(resp)
            IN  /\ log' = Append(log, Req("login", email, ""))
                /\ login_resps' = Append(login_resps, resp)
                /\ faults' = IF resp = LoginOk(email) THEN faults ELSE faults + 1
                /\ user_token' = token
                /\ IF ~Truthy(token)
                   THEN /\ idx' = idx + 1
                        /\ UNCHANGED <<pc, pending>>
                   ELSE \E n \in RandInt(1, Min(MaxRegistrations, Len(published_events))) :
                        \E sample \in Sample(published_events, n) :
                            /\ pending' = sample
                            /\ pc' = "event_loop"
                            /\ idx' = idx
    /\ UNCHANGED <<fn, events, speaker_emails, published_events, calls, last_call,
                   successful_bookings, failed_bookings, created_bookings, ret, booked, runs>>
    /\ BookingFrame

\* the booking service answers 409 to a pair it holds already
BookingDuplicate == Resp(409, TRUE, "", "", "Already registered")
BookingNominal(email, event_id) ==
    IF <<email, event_id>> \in booked THEN BookingDuplicate ELSE BookingOk(email, event_id)

\* the answers a booking request can get
BookingAnswersNow(email, event_id) ==
    {BookingNominal(email, event_id)} \cup (IF faults < MaxFaults THEN BookingFaults ELSE {})

\* the accounting of one booking attempt: seed_bookings 136-144,
\* seed_bookings_staggered 222-229
RecordBooking(email, event, resp) ==
    LET result == CreateBooking(resp)
    IN  /\ log' = Append(log, Req("booking", email, event.id))
        /\ calls' = Append(calls, Call(email, event.id, result))
        /\ last_call' = CallWithAnswer(email, event.id, resp, result)
        /\ IF BookingCounts(result)
           THEN /\ successful_bookings' = successful_bookings + 1
                /\ created_bookings' = Append(created_bookings,
                       [id |-> result[2], eventId |-> event.id,
                        eventStartDate |-> event.bookingStartDate])
                /\ failed_bookings' = failed_bookings
           ELSE /\ failed_bookings' = failed_bookings + 1
                /\ UNCHANGED <<successful_bookings, created_bookings>>

NextBooking_RetryFailed ==
    /\ pending' = IF BookingCounts(last_call'.result) THEN Tail(pending) ELSE pending
    /\ IF pending' = <<>>
       THEN idx' = idx + 1 /\ pc' = "user_loop"
       ELSE idx' = idx /\ pc' = pc

\* the loop over events_to_register goes on, or the loop over users does
NextBooking ==
    /\ pending' = Tail(pending)
    /\ IF Tail(pending) = <<>>
       THEN idx' = idx + 1 /\ pc' = "user_loop"
       ELSE idx' = idx /\ pc' = pc

\* seed_bookings 132-144, seed_bookings_staggered 213-229: one booking
BookingsNextEvent ==
    /\ pc = "event_loop"
    /\ fn \in BookingFunctions
    /\ LET email == users[idx].email
           event == Head(pending)
       IN \E resp \in BookingAnswersNow(email, event.id) :
            /\ RecordBooking(email, event, resp)
            /\ faults' = IF resp = BookingNominal(email, event.id) THEN faults ELSE faults + 1
            /\ booked' = IF resp.exc = "" /\ resp.status = 201
                          THEN booked \cup {<<email, event.id>>} ELSE booked
    /\ NextBooking
    /\ UNCHANGED <<fn, events, speaker_emails, published_events, login_resps, ret, user_token,
                   runs>>
    /\ BookingFrame

\* seed_bookings 148-153, seed_bookings_staggered 231-236
BookingsReturn ==
    /\ pc = "user_loop"
    /\ idx > Len(users)
    /\ ret' = Returned("pair", <<successful_bookings, created_bookings>>)
    /\ pc' = "returned"
    /\ UNCHANGED <<log, faults, fn, events, speaker_emails, published_events, idx, pending,
                   login_resps, calls, last_call, successful_bookings, failed_bookings,
                   created_bookings, user_token, booked, runs>>
    /\ BookingFrame

(***************************************************************************)
(* speaker_seeding.py: profiles and invitations                            *)
(***************************************************************************)
InviteFunctions == {"invite_speakers_to_events", "invite_speakers_to_events_staggered"}

\* the ids the speaker service gives
ServerProfileId(email) == "sp:" \o email
ServerInvitationId(profile_id, event_id) == "inv:" \o profile_id \o ":" \o event_id
ServerMessageId(user_id, event_id) == "msg:" \o user_id \o ":" \o event_id

\* answers of GET /profile/me: the id field is the profile under 'data', "" when the body
\* has no profile and None when the profile has no id
ProfileOk(email) == Resp(200, TRUE, "", ServerProfileId(email), "")
ProfileFaults ==
    {Resp(200, TRUE, "", "", ""), Resp(200, TRUE, "", None, ""), Resp(200, FALSE, "", "", ""),
     Resp(404, TRUE, "", "", "Not found"), Resp(500, FALSE, "", "", ""),
     Raised("ConnectionError")}

\* get_all_speaker_profiles 67-74: the login gave a token and a user id
ProfileAsked(login) ==
    login.exc = "" /\ login.status = 200 /\ login.json /\ Truthy(login.token) /\ Truthy(login.id)

ProfilesFound_AnyStatus(email, login, profile) ==
    IF ~ProfileAsked(login) \/ profile.exc # "" THEN <<>>
    ELSE <<[id |-> ServerProfileId(email), userId |-> login.id, email |-> email,
            token |-> login.token]>>
\* get_all_speaker_profiles 76-106: the profiles appended for one speaker; the id of
\* the entry is None when the profile has none
ProfilesFound(email, login, profile) ==
    IF ~ProfileAsked(login) \/ profile.exc # "" THEN <<>>
    ELSE IF profile.status = 200 /\ profile.json /\ profile.id # ""
         THEN <<[id |-> profile.id, userId |-> login.id, email |-> email, token |-> login.token]>>
         ELSE <<>>

\* answers of POST /api/invitations and POST /api/messages
InvitationOk(profile_id, event_id) ==
    Resp(201, TRUE, "", ServerInvitationId(profile_id, event_id), "")
InvitationFaults ==
    {Resp(201, TRUE, "", "", ""), Resp(201, FALSE, "", "", ""),
     Resp(400, TRUE, "", "", "Invitation already exists"), Resp(500, TRUE, "", "", "Internal"),
     Raised("ConnectionError")}
MessageOk(user_id, event_id) == Resp(201, TRUE, "", ServerMessageId(user_id, event_id), "")
MessageFaults == {Resp(201, TRUE, "", "", ""), Resp(500, FALSE, "", "", ""), Raised("Timeout")}

\* send_message: the message id of a 201 answer, else None
SendMessage(resp) ==
    IF resp.exc # "" THEN None
    ELSE IF resp.status = 201
         THEN IF resp.json THEN (IF resp.id = "" THEN None ELSE resp.id) ELSE None
         ELSE None

\* create_invitation 146-148: a 201 answer with a body; the id defaults to 'unknown'
InvitationCreated(resp) == resp.exc = "" /\ resp.status = 201 /\ resp.json

\* what create_invitation returns: a dict with invitation_id and message_id, or None
InvitationDict(invitation_id, message_id) ==
    [is_none |-> FALSE, invitation_id |-> invitation_id, message_id |-> message_id]
InvitationNone == [is_none |-> TRUE, invitation_id |-> None, message_id |-> None]

\* create_invitation
CreateInvitation(resp, msg) ==
    IF InvitationCreated(resp)
    THEN InvitationDict(IF resp.id = "" THEN "unknown" ELSE resp.id, SendMessage(msg))
    ELSE InvitationNone

\* "min(4, len(published_events))" and the lower end of the invitation loops
MaxInvitations == 4
MinInvitations == 2

InviteFrame == StageFrame /\ UNCHANGED bookingVars /\ UNCHANGED acceptVars

\* what the early returns of the invitation functions return
InviteEarlyReturn == Returned("stats", [invitations_created |-> 0])

\* invite_speakers_to_events 414-420, _staggered 516-522: the guards on the arguments
InviteStart ==
    /\ pc = "start"
    /\ fn \in InviteFunctions
    /\ IF speaker_emails = <<>> \/ events = <<>>
       THEN ret' = InviteEarlyReturn /\ pc' = "returned" /\ idx' = idx
       ELSE ret' = ret /\ pc' = "profiles" /\ idx' = 1
    /\ speaker_profiles' = <<>>
    /\ UNCHANGED <<log, faults, exc, fn, events, speaker_emails, published_events, pending, calls,
                   last_call, stats, invitation_data>>
    /\ InviteFrame

\* get_all_speaker_profiles 57-111: one speaker, its login and its profile request
ProfileStep ==
    /\ pc = "profiles"
    /\ idx <= Len(speaker_emails)
    /\ LET email == speaker_emails[idx]
       IN \E login \in StageLoginAnswers(email) :
          \E profile \in {ProfileOk(email)} \cup
                         (IF login = LoginOk(email) /\ faults < MaxFaults
                          THEN ProfileFaults ELSE {}) :
            /\ ~ProfileAsked(login) => profile = ProfileOk(email)
            /\ log' = log \o <<Req("login", email, "")>> \o
                      (IF ProfileAsked(login) THEN <<Req("profile", email, "")>> ELSE <<>>)
            /\ faults' = IF login = LoginOk(email) /\ profile = ProfileOk(email)
                         THEN faults ELSE faults + 1
            /\ speaker_profiles' = speaker_profiles \o ProfilesFound(email, login, profile)
            /\ last_call' = CallWithAnswer(email, "profile",
                                IF ProfileAsked(login) THEN profile ELSE login,
                                <<ProfilesFound(email, login, profile) # <<>>, None>>)
    /\ idx' = idx + 1
    /\ UNCHANGED <<pc, exc, fn, events, speaker_emails, published_events, pending, calls, ret,
                   stats, invitation_data>>
    /\ InviteFrame

\* invite_speakers_to_events 432-447, _staggered 534-550: after the profiles
InviteAfterProfiles ==
    /\ pc = "profiles"
    /\ fn \in InviteFunctions
    /\ idx > Len(speaker_emails)
    /\ IF speaker_profiles = <<>> \/ PublishedOf(events) = <<>>
       THEN /\ ret' = InviteEarlyReturn
            /\ pc' = "returned"
            /\ published_events' = IF speaker_profiles = <<>> THEN published_events ELSE <<>>
            /\ UNCHANGED <<idx, stats, invitation_data>>
       ELSE /\ published_events' = PublishedOf(events)
            /\ stats' = NoStats
            /\ invitation_data' = <<>>
            /\ idx' = 1
            /\ pc' = "speaker_loop"
            /\ ret' = ret
    /\ UNCHANGED <<log, faults, exc, fn, events, speaker_emails, pending, calls, last_call,
                   speaker_profiles>>
    /\ InviteFrame

\* invite_speakers_to_events 451-452, _staggered 559-560: how many events, and which;
\* randint raises ValueError when fewer than two events are published
InvitePick ==
    /\ pc = "speaker_loop"
    /\ idx <= Len(speaker_profiles)
    /\ IF RandInt(MinInvitations, Min(MaxInvitations, Len(published_events))) = {}
       THEN /\ exc' = "ValueError"
            /\ pc' = "raised"
            /\ pending' = pending
       ELSE \E n \in RandInt(MinInvitations, Min(MaxInvitations, Len(published_events))) :
            \E sample \in Sample(published_events, n) :
                /\ pending' = sample
                /\ pc' = "invite_loop"
                /\ exc' = exc
    /\ UNCHANGED <<log, faults, fn, events, speaker_emails, published_events, idx, calls,
                   last_call, ret, inviteVars>>
    /\ InviteFrame

\* the loop over assigned_events goes on, or the loop over speaker_profiles does
NextInvitation ==
    /\ pending' = Tail(pending)
    /\ IF Tail(pending) = <<>>
       THEN idx' = idx + 1 /\ pc' = "speaker_loop"
       ELSE idx' = idx /\ pc' = pc

\* "if result and result.get('invitation_id')"
InvitationCounts(result) == ~result.is_none /\ Truthy(result.invitation_id)

\* the accounting of one invitation: invite_speakers_to_events 472-486, _staggered 585-598
RecordInvitation(speaker, event, result) ==
    IF InvitationCounts(result)
    THEN /\ stats' = [invitations_created |-> stats.invitations_created + 1,
                      messages_sent |-> stats.messages_sent +
                                        (IF Truthy(result.message_id) THEN 1 ELSE 0)]
         /\ invitation_data' = Append(invitation_data,
                [invitation_id |-> result.invitation_id, message_id |-> result.message_id,
                 event_id |-> event.id, speaker_user_id |-> speaker.userId,
                 speaker_email |-> speaker.email])
    ELSE UNCHANGED <<stats, invitation_data>>

\* invite_speakers_to_events 454-488, _staggered 562-598: one invitation and its message;
\* "speaker['id'][:8]" raises TypeError for a profile without id
InviteStep ==
    /\ pc = "invite_loop"
    /\ fn \in InviteFunctions
    /\ LET speaker == speaker_profiles[idx]
           event == Head(pending)
           invOk == InvitationOk(speaker.id, event.id)
           msgOk == MessageOk(speaker.userId, event.id)
       IN IF speaker.id = None
          THEN /\ exc' = "TypeError"
               /\ pc' = "raised"
               /\ UNCHANGED <<log, faults, calls, last_call, stats, invitation_data, pending, idx>>
          ELSE /\ \E resp \in {invOk} \cup (IF faults < MaxFaults THEN InvitationFaults ELSE {}) :
                  \E msg \in {msgOk} \cup (IF resp = invOk /\ faults < MaxFaults
                                           THEN MessageFaults ELSE {}) :
                    LET result == CreateInvitation(resp, msg)
                    IN  /\ log' = log \o <<Req("invitation", speaker.email, event.id)>> \o
                                  (IF InvitationCreated(resp)
                                   THEN <<Req("message", speaker.email, event.id)>> ELSE <<>>)
                        /\ faults' = IF resp = invOk /\ msg = msgOk THEN faults ELSE faults + 1
                        /\ calls' = Append(calls, Call(speaker.email, event.id, result))
                        /\ last_call' = CallWithAnswer(speaker.email, event.id, resp, result)
                        /\ RecordInvitation(speaker, event, result)
               /\ NextInvitation
               /\ exc' = exc
    /\ UNCHANGED <<fn, events, speaker_emails, published_events, ret, speaker_profiles>>
    /\ InviteFrame

\* invite_speakers_to_events 490-493, _staggered 600-605
InviteReturn ==
    /\ pc = "speaker_loop"
    /\ fn \in InviteFunctions
    /\ idx > Len(speaker_profiles)
    /\ ret' = Returned("stats", stats)
    /\ pc' = "returned"
    /\ UNCHANGED <<log, faults, exc, fn, events, speaker_emails, published_events, idx, pending,
                   calls, last_call, inviteVars>>
    /\ InviteFrame

(***************************************************************************)
(* speaker_seeding.py: the speakers answer their invitations               *)
(***************************************************************************)
AcceptFunctions == {"speakers_accept_invitations", "speakers_accept_invitations_staggered"}

\* an invitation and a message as the speaker service holds them
Invitation(email, i, status) ==
    [id |-> ServerInvitationId(ServerProfileId(email), EventId(i)), speaker |-> email,
     eventId |-> EventId(i), status |-> status]
Message(email, i, subject, status) ==
    [id |-> ServerMessageId(ServerUserId(email), EventId(i)), to |-> email,
     eventId |-> EventId(i), subject |-> subject, status |-> status]

\* create_invitation 153-155: the subject of the message that goes with an invitation
InvitationSubject(i) == "Speaking Invitation: Event " \o ToString(i)
\* seed_speaker_data 1021-1027: a subject without 'invitation' or 'speaking'
OtherSubject == "Event Schedule Update"

\* "'invitation' in subject or 'speaking' in subject", subject in lower case
IsInvitationSubject(subject) == subject # OtherSubject

\* an answer that carries a list under 'data'
ListResp(status, json, data) == [exc |-> "", status |-> status, json |-> json, data |-> data]
ListFaults == {ListResp(500, FALSE, <<>>), ListResp(200, FALSE, <<>>),
               [exc |-> "ConnectionError", status |-> HttpNone, json |-> FALSE, data |-> <<>>]}

\* GET /api/invitations/speaker/{id}?status=PENDING, answered from what the service holds
PendingOf(email) ==
    SelectSeq(invitations, LAMBDA v : v.speaker = email /\ v.status = "PENDING")
\* GET /api/messages/inbox/{userId}
InboxOf(email) == SelectSeq(inbox, LAMBDA m : m.to = email)

\* get_user_inbox_messages: the list of a 200 answer, else []
GetUserInboxMessages(resp) ==
    IF resp.exc = "" /\ resp.status = 200 /\ resp.json THEN resp.data ELSE <<>>

\* answers of the PUT requests (respond, mark as read): only the status code is read
PutOk == Resp(200, TRUE, "", "", "")
PutFaults == {Resp(400, TRUE, "", "", "Bad request"), Resp(500, FALSE, "", "", ""),
              Raised("Timeout")}

\* respond_to_invitation, mark_message_as_read: "response.status_code == 200"
PutSucceeded(resp) == resp.exc = "" /\ resp.status = 200

InvitationMessage_None(messages, event_id) == <<>>
\* speakers_accept_invitations 704-713, _staggered 861-870: the first unread message of
\* the inbox for this event whose subject names an invitation, <<>> if there is none
InvitationMessage(messages, event_id) ==
    LET hits == SelectSeq(messages, LAMBDA m : /\ m.eventId = event_id
                                               /\ m.status # "READ"
                                               /\ IsInvitationSubject(m.subject))
    IN  IF hits = <<>> THEN <<>> ELSE <<Head(hits)>>

\* "if random.random() < 0.7": the two outcomes
Coin == {"accept", "decline"}

\* the status of the respond request a coin outcome leads to, <<>> for no request:
\* respond_to_invitation is called in the accept branch only (722, 879), the decline
\* branch (726-735, 883-893) marks the message read and prints
RespondStatus(coin) == IF coin = "accept" THEN <<"ACCEPTED">> ELSE <<>>

AcceptFrame ==
    /\ StageFrame
    /\ UNCHANGED bookingVars
    /\ UNCHANGED <<speaker_profiles, invitation_data, events, published_events, exc, fn,
                   speaker_emails>>

\* speakers_accept_invitations 626-634, _staggered 771-780
AcceptStart ==
    /\ pc = "start"
    /\ fn \in AcceptFunctions
    /\ IF speaker_emails = <<>>
       THEN /\ ret' = Returned("stats", [invitations_accepted |-> 0])
            /\ pc' = "returned"
            /\ UNCHANGED <<stats, idx>>
       ELSE /\ stats' = [invitations_accepted |-> 0]
            /\ idx' = 1
            /\ pc' = "accept_loop"
            /\ ret' = ret
    /\ UNCHANGED <<log, faults, pending, calls, last_call, acceptVars>>
    /\ AcceptFrame

\* the answers to the requests of one speaker before the invitation loop: a fault, if
\* any, ends the speaker's turn, so only one request of the turn gets one
SpeakerTurnAnswers(email) ==
    LET ok == <<LoginOk(email), ProfileOk(email), ListResp(200, TRUE, PendingOf(email))>>
    IN  {ok} \cup
        IF faults < MaxFaults
        THEN {<<l, ok[2], ok[3]>> : l \in StageLoginAnswers(email) \ {ok[1]}}
             \cup {<<ok[1], p, ok[3]>> : p \in ProfileFaults}
             \cup {<<ok[1], ok[2], f>> : f \in ListFaults \cup {ListResp(200, TRUE, <<>>)}}
        ELSE {}

\* speakers_accept_invitations 636-695, _staggered 782-851: login, profile, pending
\* invitations of one speaker
AcceptLogin ==
    /\ pc = "accept_loop"
    /\ fn \in AcceptFunctions
    /\ idx <= Len(speaker_emails)
    /\ LET email == speaker_emails[idx]
       IN \E ans \in SpeakerTurnAnswers(email) :
            LET login == ans[1]
                profile == ans[2]
                invites == ans[3]
                hasProfile == ProfilesFound(email, login, profile) # <<>>
                given == IF hasProfile /\ invites.exc = "" /\ invites.status = 200 /\ invites.json
                         THEN invites.data ELSE <<>>
            IN  /\ log' = log \o <<Req("login", email, "")>>
                          \o (IF ProfileAsked(login) THEN <<Req("profile", email, "")>> ELSE <<>>)
                          \o (IF hasProfile THEN <<Req("pending", email, "")>> ELSE <<>>)
                /\ faults' = IF ans = <<LoginOk(email), ProfileOk(email),
                                        ListResp(200, TRUE, PendingOf(email))>>
                             THEN faults ELSE faults + 1
                /\ fetched' = fetched \cup {given[k].id : k \in DOMAIN given}
                /\ pending' = given
                /\ IF given = <<>>
                   THEN idx' = idx + 1 /\ pc' = pc
                   ELSE idx' = idx /\ pc' = "respond_loop"
    /\ UNCHANGED <<calls, last_call, ret, stats, invitations, inbox>>
    /\ AcceptFrame

\* the service marks a message read, or gives an invitation its answer
MarkRead(messages, id) ==
    [k \in DOMAIN messages |->
        IF messages[k].id = id THEN [messages[k] EXCEPT !.status = "READ"] ELSE messages[k]]
Answered(held, id, status) ==
    [k \in DOMAIN held |->
        IF held[k].id = id THEN [held[k] EXCEPT !.status = status] ELSE held[k]]

\* the answers to the requests made for one invitation: inbox, mark as read, respond
InvitationAnswers(email) ==
    LET inboxOk == ListResp(200, TRUE, InboxOf(email))
        budget == MaxFaults - faults
    IN  {a \in ({inboxOk} \cup ListFaults) \X ({PutOk} \cup PutFaults) \X ({PutOk} \cup PutFaults) :
            (IF a[1] = inboxOk THEN 0 ELSE 1) + (IF a[2] = PutOk THEN 0 ELSE 1)
            + (IF a[3] = PutOk THEN 0 ELSE 1) <= budget}

\* speakers_accept_invitations 697-735, _staggered 853-893: one invitation
AcceptInvitation ==
    /\ pc = "respond_loop"
    /\ fn \in AcceptFunctions
    /\ LET email == speaker_emails[idx]
           invitation == Head(pending)
       IN \E coin \in Coin : \E ans \in InvitationAnswers(email) :
            LET messages == GetUserInboxMessages(ans[1])
                found == InvitationMessage(messages, invitation.eventId)
                marks == found # <<>>
                responds == RespondStatus(coin)
                marked == marks /\ PutSucceeded(ans[2])
                answered == responds # <<>> /\ PutSucceeded(ans[3])
            IN  /\ marks \/ ans[2] = PutOk
                /\ responds # <<>> \/ ans[3] = PutOk
                /\ log' = log \o <<Req("inbox", email, invitation.eventId)>>
                          \o (IF marks THEN <<Req("mark_read", email, found[1].id)>> ELSE <<>>)
                          \o (IF responds # <<>> THEN <<Req("respond", email, invitation.id)>>
                              ELSE <<>>)
                /\ faults' = faults + (IF ans[1].exc = "" /\ ans[1].status = 200 /\ ans[1].json
                                       THEN 0 ELSE 1)
                                    + (IF ans[2] = PutOk THEN 0 ELSE 1)
                                    + (IF ans[3] = PutOk THEN 0 ELSE 1)
                /\ inbox' = IF marked THEN MarkRead(inbox, found[1].id) ELSE inbox
                /\ invitations' = IF answered THEN Answered(invitations, invitation.id, responds[1])
                                  ELSE invitations
                /\ calls' = IF responds # <<>>
                            THEN Append(calls, Call(email, invitation.id,
                                                    <<responds[1], PutSucceeded(ans[3])>>))
                            ELSE calls
                /\ last_call' = CallWithAnswer(email, invitation.id, ans[3],
                                               <<coin, answered, messages = InboxOf(email)>>)
                /\ stats' = IF coin = "accept" /\ answered
                            THEN [invitations_accepted |-> stats.invitations_accepted + 1]
                            ELSE stats
    /\ pending' = Tail(pending)
    /\ IF Tail(pending) = <<>>
       THEN idx' = idx + 1 /\ pc' = "accept_loop"
       ELSE idx' = idx /\ pc' = pc
    /\ UNCHANGED <<ret, fetched>>
    /\ AcceptFrame

\* speakers_accept_invitations 750-752, _staggered 906-908
AcceptReturn ==
    /\ pc = "accept_loop"
    /\ fn \in AcceptFunctions
    /\ idx > Len(speaker_emails)
    /\ ret' = Returned("stats", stats)
    /\ pc' = "returned"
    /\ UNCHANGED <<log, faults, idx, pending, calls, last_call, stats, acceptVars>>
    /\ AcceptFrame

(***************************************************************************)
(* A stage function called by itself                                       *)
(***************************************************************************)
\* main's own variables do not matter to a stage function
MainIdle ==
    /\ exit_code = NoExit /\ conn_ok = TRUE /\ login_result = <<TRUE, "tok:admin", "id:admin">>
    /\ admin_token = "tok:admin" /\ admin_user_id = "id:admin" /\ stages = <<>> /\ reg_i = 0
    /\ speakers = <<>> /\ all_user_emails = <<>> /\ got_502_errors = FALSE /\ reg_results = <<>>
    /\ reg_last = NoResult
    /\ outage = "none" /\ reg_resp = NoAnswer /\ reg_login_resp = NoAnswer /\ login_resp = NoAnswer
    /\ prompt_answer = None

\* the locals of a stage function before it starts
StageLocalsIdle ==
    /\ pc = "start" /\ exc = "" /\ log = <<>>
    /\ published_events = <<>>
    /\ idx = 0 /\ pending = <<>> /\ login_resps = <<>> /\ calls = <<>> /\ last_call = NoCall
    /\ successful_bookings = 0 /\ failed_bookings = 0 /\ created_bookings = <<>>
    /\ ret = NotReturned /\ user_token = None /\ booked = {} /\ runs = 0
    /\ speaker_profiles = <<>> /\ stats = NoStats /\ invitation_data = <<>>
    /\ accepted_event_ids = <<>> /\ num_left = 0
    /\ registered = <<>> /\ attempt = NoAttempt

\* the speaker service holds no invitation and no message
SpeakerServiceEmpty == invitations = <<>> /\ inbox = <<>> /\ fetched = {}

\* no event is being created
NoEventDates ==
    /\ venue = None /\ candidate = None /\ start_date = None /\ end_date = None
    /\ session_start = None /\ session_end = None

\* no date is being generated
NoDates ==
    /\ num = 0 /\ event_start_date = None /\ creation_dates = <<>> /\ booking_dates_list = <<>>
    /\ updated = 0

\* a list with more PUBLISHED events than one user or speaker is ever given
FullCatalogue == [i \in 1..(MaxRegistrations + 1) |-> Event(i, "PUBLISHED")]

\* the arguments of a stage call: an event list and the number of users or speakers;
\* the lists within MaxLoad, and FullCatalogue for one user or speaker
StageArguments ==
    UNION {{<<evs, nm[2]>> : evs \in EventLists(nm[1])} : nm \in ArgumentSizes}
    \cup {<<FullCatalogue, 1>>}

InitStages ==
    /\ MainIdle
    /\ StageLocalsIdle
    /\ SpeakerServiceEmpty
    /\ NoEventDates
    /\ NoDates
    /\ faults = 0
    /\ fn \in BookingFunctions \cup InviteFunctions
    /\ \E arg \in StageArguments :
        /\ events = arg[1]
        /\ IF fn \in BookingFunctions
           THEN users = UserList(arg[2]) /\ speaker_emails = <<>>
           ELSE users = <<>> /\ speaker_emails = SpeakerEmailList(arg[2])

NextStages ==
    \/ BookingsStart
    \/ BookingsNextUser
    \/ BookingsNextEvent
    \/ BookingsReturn
    \/ InviteStart
    \/ ProfileStep
    \/ InviteAfterProfiles
    \/ InvitePick
    \/ InviteStep
    \/ InviteReturn

SpecStages == InitStages /\ [][NextStages]_vars

(***************************************************************************)
(* The acceptance functions called on a speaker service that holds         *)
(* invitations                                                             *)
(***************************************************************************)
\* the message that goes with an invitation in the inbox of a speaker: none, the
\* invitation message unread or read, or an unread message on another subject
MessageKinds == {"none", "unread", "read", "other"}
MessagesOfKind(email, i, kind) ==
    CASE kind = "unread" -> <<Message(email, i, InvitationSubject(i), "UNREAD")>>
      [] kind = "read" -> <<Message(email, i, InvitationSubject(i), "READ")>>
      [] kind = "other" -> <<Message(email, i, OtherSubject, "UNREAD")>>
      [] OTHER -> <<>>

RECURSIVE Flatten(_)
Flatten(seqs) == IF seqs = <<>> THEN <<>> ELSE Head(seqs) \o Flatten(Tail(seqs))

\* m speakers, each with k PENDING invitations, as the invitation stage leaves them
HeldInvitations(m, k) ==
    Flatten([j \in 1..m |-> [i \in 1..k |-> Invitation(SpeakerEmail(j), i, "PENDING")]])
HeldMessages(m, k, kind) ==
    Flatten([j \in 1..m |-> Flatten([i \in 1..k |-> MessagesOfKind(SpeakerEmail(j), i, kind)])])

InitAccept ==
    /\ MainIdle
    /\ StageLocalsIdle
    /\ NoEventDates
    /\ NoDates
    /\ faults = 0
    /\ fn \in AcceptFunctions
    /\ events = <<>> /\ users = <<>>
    /\ fetched = {}
    /\ \E nm \in ArgumentSizes :
        /\ nm[1] <= MaxInvitations
        /\ speaker_emails = SpeakerEmailList(nm[2])
        /\ invitations = HeldInvitations(nm[2], nm[1])
        /\ \E kind \in MessageKinds : inbox = HeldMessages(nm[2], nm[1], kind)

NextAccept ==
    \/ AcceptStart
    \/ AcceptLogin
    \/ AcceptInvitation
    \/ AcceptReturn

SpecAccept == InitAccept /\ [][NextAccept]_vars

(***************************************************************************)
(* The booking stage started a second time on the same booking service     *)
(***************************************************************************)
\* the script is run again: the function starts anew, the service keeps its bookings
Rerun ==
    /\ pc = "returned"
    /\ fn \in BookingFunctions
    /\ runs = 0
    /\ runs' = 1
    /\ pc' = "start"
    /\ ret' = NotReturned
    /\ published_events' = <<>>
    /\ idx' = 0
    /\ login_resps' = <<>>
    /\ user_token' = None
    /\ UNCHANGED <<log, faults, fn, events, speaker_emails, pending, calls, last_call,
                   successful_bookings, failed_bookings, created_bookings, booked>>
    /\ BookingFrame

\* the services of this specification give the nominal answers only
InitRerun ==
    /\ MainIdle
    /\ StageLocalsIdle
    /\ SpeakerServiceEmpty
    /\ NoEventDates
    /\ NoDates
    /\ faults = MaxFaults
    /\ fn \in BookingFunctions
    /\ speaker_emails = <<>>
    /\ \E nm \in ArgumentSizes : events \in EventLists(nm[1]) /\ users = UserList(nm[2])

NextRerun ==
    \/ BookingsStart
    \/ BookingsNextUser
    \/ BookingsNextEvent
    \/ BookingsReturn
    \/ Rerun

SpecRerun == InitRerun /\ [][NextRerun]_vars

(***************************************************************************)
(* Materials and messages (speaker_seeding.py, seed_speaker_data)          *)
(***************************************************************************)
\* "stats = {'materials': 0, 'messages': 0}"; materials_list is created by the first
\* material and is empty until then
SpeakerDataStats(materials, messages, materials_list) ==
    [materials |-> materials, messages |-> messages, materials_list |-> materials_list]
\* what the early returns of seed_speaker_data return
SpeakerDataEarlyReturn == Returned("stats", [materials |-> 0, messages |-> 0])

\* GET /api/invitations/speaker/{id}: every invitation the service holds for the profile
InvitationsOf(speaker) ==
    SelectSeq(invitations, LAMBDA v : speaker.id = ServerProfileId(v.speaker))

\* seed_speaker_data 986-995: the event ids of the invitations whose status is ACCEPTED;
\* an answer other than a 200 with a body leaves the list empty
HasStatus_Any(v, status) == TRUE
HasStatus(v, status) == v.status = status
AcceptedEventIds(resp) ==
    IF resp.exc = "" /\ resp.status = 200 /\ resp.json
    THEN LET accepted == SelectSeq(resp.data, LAMBDA v : HasStatus(v, "ACCEPTED"))
         IN  [k \in DOMAIN accepted |-> accepted[k].eventId]
    ELSE <<>>

\* "random.choice(accepted_event_ids) if accepted_event_ids and random.random() < 0.6
\* else None"
MaterialEventIds(accepted) == {None} \cup {accepted[k] : k \in DOMAIN accepted}

\* answers of POST /api/materials/upload
ServerMaterialId(email, n) == "mat:" \o email \o ":" \o ToString(n)
UploadOk(email, n) == Resp(201, TRUE, "", ServerMaterialId(email, n), "")
UploadFaults == {Resp(201, TRUE, "", "", ""), Resp(201, FALSE, "", "", ""),
                 Resp(500, FALSE, "", "", ""), Raised("ConnectionError")}

\* upload_material 282-290: (success, material_id); a 201 answer without a body raises
\* inside the try
UploadMaterial(resp) ==
    IF resp.exc = "" /\ resp.status = 201 /\ resp.json
    THEN <<TRUE, IF resp.id = "" THEN None ELSE resp.id>>
    ELSE <<FALSE, None>>

MinMaterials == 1
MaxMaterials == 3
MaxMessages == 2

SpeakerDataFrame ==
    /\ UNCHANGED mainOnlyVars /\ UNCHANGED users
    /\ UNCHANGED <<eventVars, dateVars, credVars>>
    /\ UNCHANGED bookingVars
    /\ UNCHANGED acceptVars
    /\ UNCHANGED <<fn, events, speaker_emails, published_events, pending, invitation_data, exc>>

\* seed_speaker_data 935-941: the guards on the arguments
SpeakerDataStart ==
    /\ pc = "start"
    /\ fn = "seed_speaker_data"
    /\ IF speaker_emails = <<>> \/ events = <<>>
       THEN ret' = SpeakerDataEarlyReturn /\ pc' = "returned" /\ idx' = idx
       ELSE ret' = ret /\ pc' = "profiles" /\ idx' = 1
    /\ UNCHANGED <<log, faults, calls, last_call, speaker_profiles, stats, dataVars>>
    /\ SpeakerDataFrame

\* seed_speaker_data 950-962: after get_all_speaker_profiles
SpeakerDataAfterProfiles ==
    /\ pc = "profiles"
    /\ fn = "seed_speaker_data"
    /\ idx > Len(speaker_emails)
    /\ IF speaker_profiles = <<>>
       THEN ret' = SpeakerDataEarlyReturn /\ pc' = "returned" /\ UNCHANGED <<idx, stats>>
       ELSE /\ stats' = SpeakerDataStats(0, 0, <<>>)
            /\ idx' = 1
            /\ pc' = "materials"
            /\ ret' = ret
    /\ UNCHANGED <<log, faults, calls, last_call, speaker_profiles, dataVars>>
    /\ SpeakerDataFrame

\* seed_speaker_data 972-995: num_materials and the lookup of the speaker's invitations
MaterialsLookup ==
    /\ pc = "materials"
    /\ fn = "seed_speaker_data"
    /\ LET speaker == speaker_profiles[idx]
           nominal == ListResp(200, TRUE, InvitationsOf(speaker))
       IN  \E resp \in {nominal} \cup (IF faults < MaxFaults THEN ListFaults ELSE {}) :
             /\ accepted_event_ids' = AcceptedEventIds(resp)
             /\ faults' = IF resp = nominal THEN faults ELSE faults + 1
             /\ log' = Append(log, Req("invitations", speaker.email, ""))
             /\ last_call' = CallWithAnswer(speaker.email, "invitations", resp,
                                            <<TRUE, AcceptedEventIds(resp)>>)
    /\ num_left' \in MinMaterials..MaxMaterials
    /\ pc' = "upload"
    /\ UNCHANGED <<idx, calls, speaker_profiles, stats, ret>>
    /\ SpeakerDataFrame

\* seed_speaker_data 997-1013: one material; after the last one the loop over the
\* speakers goes on, or the loop over the messages starts
UploadStep ==
    /\ pc = "upload"
    /\ fn = "seed_speaker_data"
    /\ LET speaker == speaker_profiles[idx]
           n == Len(calls) + 1
       IN  \E event_id \in MaterialEventIds(accepted_event_ids) :
           \E resp \in {UploadOk(speaker.email, n)} \cup
                       (IF faults < MaxFaults THEN UploadFaults ELSE {}) :
             LET result == UploadMaterial(resp)
             IN  /\ log' = Append(log, Req("upload", speaker.email, event_id))
                 /\ faults' = IF resp = UploadOk(speaker.email, n) THEN faults ELSE faults + 1
                 /\ calls' = Append(calls, Call(speaker.email, event_id, result))
                 /\ last_call' = CallWithAnswer(speaker.email, event_id, resp, result)
                 /\ stats' = IF result[1] /\ Truthy(result[2])
                             THEN SpeakerDataStats(stats.materials + 1, stats.messages,
                                      Append(stats.materials_list,
                                             [id |-> result[2], speakerId |-> speaker.id,
                                              eventId |-> event_id]))
                             ELSE stats
    /\ num_left' = num_left - 1
    /\ IF num_left > 1
       THEN UNCHANGED <<pc, idx>>
       ELSE IF idx < Len(speaker_profiles)
            THEN pc' = "materials" /\ idx' = idx + 1
            ELSE pc' = "messages" /\ idx' = 1
    /\ UNCHANGED <<speaker_profiles, ret, accepted_event_ids>>
    /\ SpeakerDataFrame

\* seed_speaker_data 1037-1039: num_messages of one speaker
MessagesPick ==
    /\ pc = "messages"
    /\ fn = "seed_speaker_data"
    /\ idx <= Len(speaker_profiles)
    /\ \E num_messages \in 0..MaxMessages :
        /\ num_left' = num_messages
        /\ IF num_messages = 0
           THEN pc' = pc /\ idx' = idx + 1
           ELSE pc' = "send" /\ idx' = idx
    /\ UNCHANGED <<log, faults, calls, last_call, speaker_profiles, stats, ret,
                   accepted_event_ids>>
    /\ SpeakerDataFrame

\* seed_speaker_data 1041-1049: one message from the admin to the speaker; its subject
\* and content are drawn from fixed lists and decide nothing in this function
SendStep ==
    /\ pc = "send"
    /\ fn = "seed_speaker_data"
    /\ LET speaker == speaker_profiles[idx]
           msgOk == MessageOk(speaker.userId, ToString(Len(log)))
       IN  \E resp \in {msgOk} \cup (IF faults < MaxFaults THEN MessageFaults ELSE {}) :
             /\ log' = Append(log, Req("message", speaker.email, ""))
             /\ faults' = IF resp = msgOk THEN faults ELSE faults + 1
             /\ stats' = IF Truthy(SendMessage(resp))
                         THEN SpeakerDataStats(stats.materials, stats.messages + 1,
                                               stats.materials_list)
                         ELSE stats
             /\ last_call' = CallWithAnswer(speaker.email, "message", resp,
                                            <<Truthy(SendMessage(resp)), SendMessage(resp)>>)
    /\ num_left' = num_left - 1
    /\ IF num_left > 1
       THEN UNCHANGED <<pc, idx>>
       ELSE pc' = "messages" /\ idx' = idx + 1
    /\ UNCHANGED <<calls, speaker_profiles, ret, accepted_event_ids>>
    /\ SpeakerDataFrame

\* seed_speaker_data 1051-1056: return stats
SpeakerDataReturn ==
    /\ pc = "messages"
    /\ fn = "seed_speaker_data"
    /\ idx > Len(speaker_profiles)
    /\ ret' = Returned("stats", stats)
    /\ pc' = "returned"
    /\ UNCHANGED <<log, faults, idx, calls, last_call, speaker_profiles, stats, dataVars>>
    /\ SpeakerDataFrame

\* the invitations the speaker service holds when the stage starts: speaker j is invited
\* to events 1 and 2, with the statuses of st, in opposite order for every other speaker
InvitationStatuses == {<<"ACCEPTED", "PENDING">>, <<"PENDING", "DECLINED">>}
AnsweredInvitations(m, st) ==
    Flatten([j \in 1..m |->
        [i \in 1..2 |-> Invitation(SpeakerEmail(j), i, IF j % 2 = 1 THEN st[i] ELSE st[3 - i])]])

\* the speakers of a seed_speaker_data call; each gets up to 3 uploads and 2 messages
MaxSpeakers == MaxLoad \div 2

InitSpeakerData ==
    /\ MainIdle
    /\ StageLocalsIdle
    /\ NoEventDates
    /\ NoDates
    /\ faults = 0
    /\ fn = "seed_speaker_data"
    /\ users = <<>>
    /\ events \in {<<>>, <<Event(1, "PUBLISHED"), Event(2, "PUBLISHED")>>}
    /\ inbox = <<>> /\ fetched = {}
    /\ \E m \in 0..MaxSpeakers :
        /\ speaker_emails = SpeakerEmailList(m)
        /\ \E st \in InvitationStatuses : invitations = AnsweredInvitations(m, st)

NextSpeakerData ==
    \/ SpeakerDataStart
    \/ ProfileStep
    \/ SpeakerDataAfterProfiles
    \/ MaterialsLookup
    \/ UploadStep
    \/ MessagesPick
    \/ SendStep
    \/ SpeakerDataReturn

SpecSpeakerData == InitSpeakerData /\ [][NextSpeakerData]_vars

(***************************************************************************)
(* The creation requests of a run: the registrations of main, then one     *)
(* call of a booking function, of an invitation function and of            *)
(* seed_speaker_data, each from the arguments it can be given; Ctrl-C is   *)
(* followed during the registrations only                                  *)
(***************************************************************************)
InitCreation == InitMain \/ InitStages \/ InitSpeakerData

NextCreation ==
    \/ TestConnectivity
    \/ PromptContinue
    \/ VerifyAdmin
    \/ RegisterStep
    \/ UnpackRegistration
    \/ (fn = "" /\ Interrupt)
    \/ BookingsStart
    \/ BookingsNextUser
    \/ BookingsNextEvent
    \/ BookingsReturn
    \/ InviteStart
    \/ ProfileStep
    \/ InviteAfterProfiles
    \/ InvitePick
    \/ InviteStep
    \/ InviteReturn
    \/ SpeakerDataStart
    \/ SpeakerDataAfterProfiles
    \/ MaterialsLookup
    \/ UploadStep
    \/ MessagesPick
    \/ SendStep
    \/ SpeakerDataReturn

SpecCreation == InitCreation /\ [][NextCreation]_vars

(***************************************************************************)
(* Credentials: the passwords the accounts are registered with and the     *)
(* passwords the later stages derive from the emails. Strings are          *)
(* sequences of characters here, so that split and replace do their work.  *)
(***************************************************************************)
DigitChars == <<"0", "1", "2", "3", "4", "5", "6", "7", "8", "9">>
\* f"{i}" for a natural number
RECURSIVE Str(_)
Str(i) == IF i < 10 THEN <<DigitChars[i + 1]>> ELSE Str(i \div 10) \o <<DigitChars[(i % 10) + 1]>>

SpeakerWord == <<"s", "p", "e", "a", "k", "e", "r">>
UserWord == <<"u", "s", "e", "r">>
TestDomain == <<"@", "t", "e", "s", "t", ".", "c", "o", "m">>
PasswordEnd == <<"1", "2", "3", "!">>
\* user_seeding.py 263-264 and 282-283: email and password of account i of a role
RegisteredEmail(role, i) ==
    (IF role = "SPEAKER" THEN SpeakerWord ELSE UserWord) \o Str(i) \o TestDomain
RegisteredPassword(role, i) ==
    (IF role = "SPEAKER" THEN <<"S", "p", "e", "a", "k", "e", "r">> ELSE <<"U", "s", "e", "r">>)
        \o Str(i) \o PasswordEnd

\* s.split(sep)[0]: the part of s before the first sep, all of s without one
RECURSIVE SplitFirst(_, _)
SplitFirst(s, sep) ==
    IF s = <<>> \/ Head(s) = sep THEN <<>> ELSE <<Head(s)>> \o SplitFirst(Tail(s), sep)

StartsWith(s, old) == Len(old) <= Len(s) /\ SubSeq(s, 1, Len(old)) = old
Replace_Nothing(s, old) == s
\* s.replace(old, ''): every occurrence of old, from the left, is removed
RECURSIVE Replace(_, _)
Replace(s, old) ==
    IF s = <<>> THEN <<>>
    ELSE IF StartsWith(s, old) THEN Replace(SubSeq(s, Len(old) + 1, Len(s)), old)
    ELSE <<Head(s)>> \o Replace(Tail(s), old)

\* booking_seeding.py 120 and 196
DerivedUserPassword(email) ==
    <<"U", "s", "e", "r">> \o Replace(SplitFirst(email, "@"), UserWord) \o PasswordEnd
\* speaker_seeding.py 60-61, 638-639 and 790-791
DerivedSpeakerPassword(email) ==
    <<"S", "p", "e", "a", "k", "e", "r">> \o Replace(SplitFirst(email, "@"), SpeakerWord)
        \o PasswordEnd

\* the functions that log in with a derived password, and the role of their accounts
SpeakerLoginFunctions == {"get_all_speaker_profiles"} \cup AcceptFunctions
LoginFunctions == BookingFunctions \cup SpeakerLoginFunctions
DerivedPassword(f, email) ==
    IF f \in BookingFunctions THEN DerivedUserPassword(email) ELSE DerivedSpeakerPassword(email)
RoleOf(f) == IF f \in BookingFunctions THEN "USER" ELSE "SPEAKER"
\* the emails the function is given: those of its role whose registration succeeded
EmailsGiven(f) ==
    LET kept == SelectSeq(registered, LAMBDA a : a.role = RoleOf(f))
    IN  [k \in DOMAIN kept |-> kept[k].email]

CredentialFrame ==
    /\ UNCHANGED mainOnlyVars /\ UNCHANGED users
    /\ UNCHANGED <<events, speaker_emails, published_events, pending, calls, last_call, ret,
                   bookingVars, inviteVars, acceptVars, eventVars, dateVars, dataVars>>
    /\ UNCHANGED <<exc, log, fn>>

\* seed_users_and_speakers 262-293: account idx is registered with its password, or the
\* registration fails and the account is left out
RegisterAccount ==
    /\ pc = "register_accounts"
    /\ idx <= NumSpeakers + NumUsers
    /\ LET role == IF idx <= NumSpeakers THEN "SPEAKER" ELSE "USER"
           i == IF idx <= NumSpeakers THEN idx ELSE idx - NumSpeakers
       IN  \E success \in {TRUE} \cup (IF faults < MaxFaults THEN {FALSE} ELSE {}) :
             /\ registered' = IF success
                              THEN Append(registered, [role |-> role,
                                                       email |-> RegisteredEmail(role, i),
                                                       password |-> RegisteredPassword(role, i)])
                              ELSE registered
             /\ faults' = IF success THEN faults ELSE faults + 1
    /\ IF idx = NumSpeakers + NumUsers
       THEN pc' = "derive" /\ idx' = 1
       ELSE pc' = pc /\ idx' = idx + 1
    /\ attempt' = attempt
    /\ CredentialFrame

\* the login a later stage prepares for the account its loop is at
DerivePassword ==
    /\ pc = "derive"
    /\ idx <= Len(EmailsGiven(fn))
    /\ LET email == EmailsGiven(fn)[idx]
       IN  attempt' = [stage |-> fn, email |-> email, password |-> DerivedPassword(fn, email)]
    /\ idx' = idx + 1
    /\ UNCHANGED <<pc, faults, registered>>
    /\ CredentialFrame

InitCredentials ==
    /\ MainIdle
    /\ exc = "" /\ log = <<>>
    /\ published_events = <<>> /\ pending = <<>> /\ login_resps = <<>>
    /\ calls = <<>> /\ last_call = NoCall
    /\ successful_bookings = 0 /\ failed_bookings = 0 /\ created_bookings = <<>>
    /\ ret = NotReturned /\ user_token = None /\ booked = {} /\ runs = 0
    /\ speaker_profiles = <<>> /\ stats = NoStats /\ invitation_data = <<>>
    /\ accepted_event_ids = <<>> /\ num_left = 0
    /\ registered = <<>> /\ attempt = NoAttempt
    /\ SpeakerServiceEmpty
    /\ NoEventDates
    /\ NoDates
    /\ pc = "register_accounts"
    /\ idx = 1
    /\ faults = 0
    /\ users = <<>> /\ events = <<>> /\ speaker_emails = <<>>
    /\ fn \in LoginFunctions

NextCredentials == RegisterAccount \/ DerivePassword

SpecCredentials == InitCredentials /\ [][NextCredentials]_vars

(***************************************************************************)
(* The time window of an event and of its session (event_seeding.py)       *)
(*                                                                         *)
(* A datetime is the number of minutes since midnight of the day of the    *)
(* run (generate_event_dates sets seconds and microseconds to 0).  A time  *)
(* string "HH:mm" is the sequence of its four digits.                      *)
(***************************************************************************)
MinutesPerDay == 24 * 60
Hour(t) == (t \div 60) % 24
Minute(t) == t % 60
\* datetime.replace(hour=, minute=)
ReplaceTime(t, hour, minute) == (t \div MinutesPerDay) * MinutesPerDay + hour * 60 + minute
TimeStr(hour, minute) == <<hour \div 10, hour % 10, minute \div 10, minute % 10>>

\* parse_time 18-21
ParseTime(time_str) == <<time_str[1] * 10 + time_str[2], time_str[3] * 10 + time_str[4]>>

\* time_to_minutes 24-27
TimeToMinutes(time_str) == ParseTime(time_str)[1] * 60 + ParseTime(time_str)[2]

\* validate_event_time_against_venue 30-55
ValidateEventTimeAgainstVenue(event_start, event_end, venue_opening, venue_closing) ==
    LET event_start_minutes == Hour(event_start) * 60 + Minute(event_start)
        event_end_minutes == Hour(event_end) * 60 + Minute(event_end)
        venue_open_minutes == TimeToMinutes(venue_opening)
        venue_close_minutes == IF TimeToMinutes(venue_closing) = 24 * 60
                               THEN 23 * 60 + 59
                               ELSE TimeToMinutes(venue_closing)
    IN  event_start_minutes >= venue_open_minutes /\ event_end_minutes <= venue_close_minutes

\* generate_event_dates 70-74: the first and the last day random.randint(7, 30) gives,
\* and every duration_days of random.randint(0, 3)
DaysAhead == {7, 30}
DurationDays == 0..3

\* generate_event_dates 58-95: every (start_date, end_date) it can return
GenerateEventDates ==
    UNION {
      LET start_date0 == ReplaceTime(days_ahead * MinutesPerDay, start_hour, start_minute)
      IN  {<<start_date0, start_date0 + duration_hours * 60>> : duration_hours \in 2..8}
          \cup {<<start_date0,
                  ReplaceTime(start_date0 + duration_days * MinutesPerDay, end_hour, end_minute)>> :
                  duration_days \in DurationDays \ {0}, end_hour \in 17..22, end_minute \in {0, 30}}
      : days_ahead \in DaysAhead, start_hour \in 9..18, start_minute \in {0, 30}}

\* adjust_event_times_for_venue 115-117: the start is not before the opening
AdjustStart(event_start, venue_opening) ==
    LET venue_open_hour == ParseTime(venue_opening)[1]
        venue_open_minute == ParseTime(venue_opening)[2]
    IN  IF \/ Hour(event_start) < venue_open_hour
           \/ Hour(event_start) = venue_open_hour /\ Minute(event_start) < venue_open_minute
        THEN ReplaceTime(event_start, venue_open_hour, venue_open_minute)
        ELSE event_start

\* adjust_event_times_for_venue 119-126: the end is not after the closing
AdjustEnd(event_end, venue_closing) ==
    LET midnight == ParseTime(venue_closing)[1] = 24
        venue_close_hour == IF midnight THEN 23 ELSE ParseTime(venue_closing)[1]
        venue_close_minute == IF midnight THEN 59 ELSE ParseTime(venue_closing)[2]
    IN  IF \/ Hour(event_end) > venue_close_hour
           \/ Hour(event_end) = venue_close_hour /\ Minute(event_end) > venue_close_minute
        THEN ReplaceTime(event_end, venue_close_hour, venue_close_minute)
        ELSE event_end

\* adjust_event_times_for_venue 128-130: the end is after the start
EnsureEndAfterStart_Skipped(event_start, event_end) == event_end
EnsureEndAfterStart_OneHour(event_start, event_end) ==
    IF event_end <= event_start THEN event_start + 1 * 60 ELSE event_end
EnsureEndAfterStart(event_start, event_end) ==
    IF event_end <= event_start THEN event_start + 2 * 60 ELSE event_end

\* adjust_event_times_for_venue 98-132
AdjustEventTimesForVenue(event_start, event_end, venue_opening, venue_closing) ==
    LET adjusted_start == AdjustStart(event_start, venue_opening)
    IN  <<adjusted_start,
          EnsureEndAfterStart(adjusted_start, AdjustEnd(event_end, venue_closing))>>

\* get_venues 135-160: venues with an opening time before their closing time
OpeningTimes == {TimeStr(0, 0), TimeStr(8, 0), TimeStr(9, 30), TimeStr(10, 0), TimeStr(12, 0),
                 TimeStr(19, 0)}
ClosingTimes == {TimeStr(12, 0), TimeStr(17, 0), TimeStr(19, 0), TimeStr(20, 0), TimeStr(22, 30),
                 TimeStr(23, 59), TimeStr(24, 0)}
Venues == {v \in [openingTime : OpeningTimes, closingTime : ClosingTimes] :
              TimeToMinutes(v.openingTime) < TimeToMinutes(v.closingTime)}

EventFrame ==
    /\ UNCHANGED mainOnlyVars
    /\ UNCHANGED <<users, exc, log, faults, fn, events, speaker_emails, published_events, idx,
                   pending, calls, last_call, ret>>
    /\ UNCHANGED <<bookingVars, inviteVars, acceptVars, dateVars, dataVars, credVars>>

\* create_event 182-183: start_date, end_date = generate_event_dates()
CreateEventDates ==
    /\ fn = "create_event" /\ pc = "start"
    /\ candidate' \in GenerateEventDates
    /\ pc' = "generated"
    /\ UNCHANGED <<venue, start_date, end_date, session_start, session_end>>
    /\ EventFrame

\* create_event 185-189: the adjustment to the venue's hours
CreateEventAdjust ==
    /\ fn = "create_event" /\ pc = "generated"
    /\ LET adjusted == AdjustEventTimesForVenue(candidate[1], candidate[2],
                                                venue.openingTime, venue.closingTime)
       IN  start_date' = adjusted[1] /\ end_date' = adjusted[2]
    /\ pc' = "adjusted"
    /\ UNCHANGED <<venue, candidate, session_start, session_end>>
    /\ EventFrame

\* create_session_for_event 414-421: the window of the session
SessionWindow(event_start, event_end) ==
    LET margin_start == event_start + 30
        margin_end == event_end - 30
    IN  IF (margin_end - margin_start) * 60 < 3600
        THEN <<event_start + 15, event_start + 1 * 60 + 15>>
        ELSE <<margin_start, margin_end>>

\* create_session_for_event 398-421, called with the window of the event
\* (seed_events_with_sessions_and_speakers 581-592)
CreateSessionForEvent ==
    /\ fn = "create_event" /\ pc = "adjusted"
    /\ LET window == SessionWindow(start_date, end_date)
       IN  session_start' = window[1] /\ session_end' = window[2]
    /\ pc' = "session"
    /\ UNCHANGED <<venue, candidate, start_date, end_date>>
    /\ EventFrame

InitEvents ==
    /\ MainIdle
    /\ StageLocalsIdle
    /\ SpeakerServiceEmpty
    /\ faults = 0
    /\ fn = "create_event"
    /\ events = <<>> /\ users = <<>> /\ speaker_emails = <<>>
    /\ venue \in Venues
    /\ candidate = None /\ start_date = None /\ end_date = None
    /\ session_start = None /\ session_end = None
    /\ NoDates

NextEvents ==
    \/ CreateEventDates
    \/ CreateEventAdjust
    \/ CreateSessionForEvent

SpecEvents == InitEvents /\ [][NextEvents]_vars

(***************************************************************************)
(* The date generators (date_management.py)                                *)
(*                                                                         *)
(* Datetimes are minutes as above.  random.uniform(a, b) is drawn from    *)
(* the two ends of [a, b], which give the earliest and the latest date.    *)
(***************************************************************************)
MaxDates == 2               \* the longest list of dates asked for

\* random.uniform(a, b) of days or hours, in minutes
Uniform(a, b, unit) == {a * unit, b * unit}

\* dates.sort()
Sorted(dates) == SortSeq(dates, LAMBDA a, b : a < b)

\* the lists of n elements of S
ListsOf(n, S) == [1..n -> S]

\* generate_booking_dates 109-120, generate_invitation_dates 142-153,
\* generate_material_upload_dates 175-186: one date, the fallback included
DateBeforeEvent_FromEventStart(event_start, days_before, offset, fallback) ==
    event_start + offset
DateBeforeEvent(event_start, days_before, offset, fallback) ==
    LET base_date == event_start - days_before * MinutesPerDay
        date == base_date + offset
    IN  IF date >= event_start THEN event_start - fallback ELSE date

\* generate_booking_dates 95-125: every list it can return
GenerateBookingDatesOf(num_bookings, event_start) ==
    UNION {
      LET offsets == {d + h + m : d \in Uniform(0, days_before - 1, MinutesPerDay),
                                  h \in Uniform(8, 20, 60), m \in {0, 15, 30, 45}}
      IN  {Sorted([i \in 1..num_bookings |->
                      DateBeforeEvent(event_start, days_before, l[i], 1 * 60)]) :
              l \in ListsOf(num_bookings, offsets)}
      : days_before \in {1, 2, 30}}

\* generate_invitation_dates 128-158
GenerateInvitationDatesOf(num_invitations, event_start) ==
    UNION {
      LET offsets == {d + h + m : d \in Uniform(0, days_before - 5, MinutesPerDay),
                                  h \in Uniform(9, 17, 60), m \in {0, 30}}
      IN  {Sorted([i \in 1..num_invitations |->
                      DateBeforeEvent(event_start, days_before, l[i], MinutesPerDay)]) :
              l \in ListsOf(num_invitations, offsets)}
      : days_before \in {5, 6, 45}}

\* generate_material_upload_dates 161-191
GenerateMaterialUploadDatesOf(num_materials, event_start) ==
    UNION {
      LET offsets == {d + h + m : d \in Uniform(0, days_before - 1, MinutesPerDay),
                                  h \in Uniform(9, 18, 60), m \in {0, 15, 30, 45}}
      IN  {Sorted([i \in 1..num_materials |->
                      DateBeforeEvent(event_start, days_before, l[i], 2 * 60)]) :
              l \in ListsOf(num_materials, offsets)}
      : days_before \in {1, 2, 20}}

\* datetime.now(): the run starts in the morning or late in the evening of day DaysBack
DaysBack == 60
Now == {DaysBack * MinutesPerDay + 9 * 60 + 20, DaysBack * MinutesPerDay + 23 * 60 + 5}

\* generate_user_creation_dates 17-42, days_back = 60
GenerateUserCreationDatesOf(num_users) ==
    UNION {
      LET base_date == now - DaysBack * MinutesPerDay
          offsets == {d + h + m : d \in Uniform(0, DaysBack, MinutesPerDay),
                                  h \in Uniform(0, 23, 60), m \in {0, 45}}
      IN  {Sorted([i \in 1..num_users |-> base_date + l[i]]) : l \in ListsOf(num_users, offsets)}
      : now \in Now}

\* generate_activation_dates 45-64
GenerateActivationDatesOf(dates) ==
    {[i \in DOMAIN dates |-> dates[i] + l[i]] : l \in ListsOf(Len(dates), Uniform(1, 6, 60))}

DateFunctions == {"generate_booking_dates", "generate_invitation_dates",
                  "generate_material_upload_dates", "generate_activation_dates"}

\* bookingStartDate of an event: a start create_event can send, 45 days ahead or more
EventStartDates == {ReplaceTime(days * MinutesPerDay, hm[1], hm[2]) :
                       days \in {45, 50}, hm \in {<<0, 0>>, <<9, 30>>, <<19, 0>>}}

DateFrame ==
    /\ UNCHANGED mainOnlyVars
    /\ UNCHANGED <<users, exc, log, faults, fn, events, speaker_emails, published_events, idx,
                   pending, calls, last_call>>
    /\ UNCHANGED <<bookingVars, inviteVars, acceptVars, eventVars, dataVars, credVars>>
    /\ UNCHANGED <<num, event_start_date, booking_dates_list, updated>>

GenerateBookingDates ==
    /\ fn = "generate_booking_dates" /\ pc = "start"
    /\ \E dates \in GenerateBookingDatesOf(num, event_start_date) : ret' = Returned("list", dates)
    /\ pc' = "returned"
    /\ UNCHANGED creation_dates
    /\ DateFrame

GenerateInvitationDates ==
    /\ fn = "generate_invitation_dates" /\ pc = "start"
    /\ \E dates \in GenerateInvitationDatesOf(num, event_start_date) : ret' = Returned("list", dates)
    /\ pc' = "returned"
    /\ UNCHANGED creation_dates
    /\ DateFrame

GenerateMaterialUploadDates ==
    /\ fn = "generate_material_upload_dates" /\ pc = "start"
    /\ \E dates \in GenerateMaterialUploadDatesOf(num, event_start_date) :
        ret' = Returned("list", dates)
    /\ pc' = "returned"
    /\ UNCHANGED creation_dates
    /\ DateFrame

\* the creation dates generate_activation_dates is given
GenerateUserCreationDates ==
    /\ fn = "generate_activation_dates" /\ pc = "start"
    /\ creation_dates' \in GenerateUserCreationDatesOf(num)
    /\ pc' = "created"
    /\ UNCHANGED ret
    /\ DateFrame

GenerateActivationDates ==
    /\ fn = "generate_activation_dates" /\ pc = "created"
    /\ \E dates \in GenerateActivationDatesOf(creation_dates) : ret' = Returned("list", dates)
    /\ pc' = "returned"
    /\ UNCHANGED creation_dates
    /\ DateFrame

InitDates ==
    /\ MainIdle
    /\ StageLocalsIdle
    /\ SpeakerServiceEmpty
    /\ NoEventDates
    /\ faults = 0
    /\ events = <<>> /\ users = <<>> /\ speaker_emails = <<>>
    /\ fn \in DateFunctions
    /\ num \in 1..MaxDates
    /\ IF fn = "generate_activation_dates"
       THEN event_start_date = None
       ELSE event_start_date \in EventStartDates
    /\ creation_dates = <<>> /\ booking_dates_list = <<>> /\ updated = 0

NextDates ==
    \/ GenerateBookingDates
    \/ GenerateInvitationDates
    \/ GenerateMaterialUploadDates
    \/ GenerateUserCreationDates
    \/ GenerateActivationDates

SpecDates == InitDates /\ [][NextDates]_vars

(***************************************************************************)
(* The backfill of the booking dates (seed.py 207-227, update_booking_dates)*)
(*                                                                         *)
(* An ISO string is the datetime it denotes and its UTC suffix.            *)
(***************************************************************************)
IsoString(t, suffix) == [minutes |-> t, suffix |-> suffix]
\* booking.get('eventStartDate') of a booking without one
NoIsoString == IsoString(0, None)
\* datetime.isoformat() of a naive datetime
IsoFormat(t) == IsoString(t, "")
\* seed.py 218: datetime.fromisoformat(s.replace('Z', '+00:00').replace('+00:00', ''))
FromIsoFormat(s) == s.minutes

\* booking_seeding.py 225: the entries of created_bookings; the event of a booking may
\* carry no bookingStartDate
BookingId(i) == "bk:" \o ToString(i)
BookingStarts == {NoIsoString} \cup {IsoString(ReplaceTime(days * MinutesPerDay, 9, 30), "Z") :
                                days \in {45, 50}}
CreatedBookings(n) ==
    {[i \in 1..n |-> [id |-> BookingId(i), eventId |-> EventId(i), eventStartDate |-> l[i]]] :
        l \in ListsOf(n, BookingStarts)}

\* update_booking_creation_date (utils.py 72-99)
UpdateOk == Resp(200, TRUE, "", "", "")
UpdateFaults == {Resp(500, FALSE, "", "", ""), Raised("ConnectionError")}
UpdateBookingCreationDate(resp) == resp.exc = "" /\ resp.status = 200

PadDates_None(dates, base_date, missing) == dates
\* update_booking_dates 229-234: the list made as long as the bookings
RECURSIVE PadDates(_, _, _)
PadDates(dates, base_date, missing) ==
    IF missing = 0 THEN dates
    ELSE Append(PadDates(dates, base_date, missing - 1), base_date + missing * MinutesPerDay)

BackfillFrame ==
    /\ UNCHANGED mainOnlyVars
    /\ UNCHANGED <<users, exc, fn, events, speaker_emails, published_events, pending, calls,
                   last_call, created_bookings>>
    /\ UNCHANGED <<login_resps, successful_bookings, failed_bookings, user_token, booked, runs>>
    /\ UNCHANGED <<inviteVars, acceptVars, eventVars, dataVars, credVars>>
    /\ UNCHANGED <<num, event_start_date, creation_dates>>

\* main 214-223: one booking of the loop over created_bookings
BackfillCollect ==
    /\ fn = "update_booking_dates" /\ pc = "start"
    /\ idx < Len(created_bookings)
    /\ LET event_start_str == created_bookings[idx + 1].eventStartDate
       IN  IF event_start_str # NoIsoString
           THEN \E dates \in GenerateBookingDatesOf(1, FromIsoFormat(event_start_str)) :
                    booking_dates_list' = booking_dates_list \o dates
           ELSE booking_dates_list' = booking_dates_list
    /\ idx' = idx + 1
    /\ UNCHANGED <<pc, log, faults, ret, updated>>
    /\ BackfillFrame

\* main 225: no date was generated, update_booking_dates is not called
BackfillSkip ==
    /\ fn = "update_booking_dates" /\ pc = "start"
    /\ idx = Len(created_bookings)
    /\ booking_dates_list = <<>>
    /\ pc' = "returned"
    /\ UNCHANGED <<idx, log, faults, ret, updated, booking_dates_list>>
    /\ BackfillFrame

\* update_booking_dates 227-234, called at main 226
UpdateBookingDatesStart ==
    /\ fn = "update_booking_dates" /\ pc = "start"
    /\ idx = Len(created_bookings)
    /\ booking_dates_list # <<>>
    /\ booking_dates_list' =
           IF Len(booking_dates_list) < Len(created_bookings)
           THEN PadDates(booking_dates_list, booking_dates_list[Len(booking_dates_list)],
                         Len(created_bookings) - Len(booking_dates_list))
           ELSE booking_dates_list
    /\ updated' = 0
    /\ idx' = 0
    /\ pc' = "updating"
    /\ UNCHANGED <<log, faults, ret>>
    /\ BackfillFrame

\* update_booking_dates 236-242: one pair of zip(bookings, booking_dates)
UpdateBookingDate ==
    /\ fn = "update_booking_dates" /\ pc = "updating"
    /\ idx < Min(Len(created_bookings), Len(booking_dates_list))
    /\ LET booking == created_bookings[idx + 1]
           booking_date == booking_dates_list[idx + 1]
       IN  IF Truthy(booking.id)
           THEN \E resp \in {UpdateOk} \cup (IF faults < MaxFaults THEN UpdateFaults ELSE {}) :
                    /\ log' = Append(log, Req("update_booking_date", booking.id,
                                              IsoFormat(booking_date)))
                    /\ faults' = IF resp = UpdateOk THEN faults ELSE faults + 1
                    /\ updated' = IF UpdateBookingCreationDate(resp) THEN updated + 1 ELSE updated
           ELSE UNCHANGED <<log, faults, updated>>
    /\ idx' = idx + 1
    /\ UNCHANGED <<pc, ret, booking_dates_list>>
    /\ BackfillFrame

\* update_booking_dates 242: return updated
UpdateBookingDatesReturn ==
    /\ fn = "update_booking_dates" /\ pc = "updating"
    /\ idx = Min(Len(created_bookings), Len(booking_dates_list))
    /\ ret' = Returned("int", updated)
    /\ pc' = "returned"
    /\ UNCHANGED <<idx, log, faults, updated, booking_dates_list>>
    /\ BackfillFrame

\* main 208: created_bookings is not empty
InitBackfill ==
    /\ MainIdle
    /\ pc = "start" /\ exc = "" /\ log = <<>> /\ faults = 0
    /\ published_events = <<>> /\ idx = 0 /\ pending = <<>> /\ login_resps = <<>>
    /\ calls = <<>> /\ last_call = NoCall
    /\ successful_bookings = 0 /\ failed_bookings = 0
    /\ ret = NotReturned /\ user_token = None /\ booked = {} /\ runs = 0
    /\ speaker_profiles = <<>> /\ stats = NoStats /\ invitation_data = <<>>
    /\ accepted_event_ids = <<>> /\ num_left = 0
    /\ registered = <<>> /\ attempt = NoAttempt
    /\ SpeakerServiceEmpty
    /\ NoEventDates
    /\ NoDates
    /\ events = <<>> /\ users = <<>> /\ speaker_emails = <<>>
    /\ fn = "update_booking_dates"
    /\ \E n \in 1..MaxDates : created_bookings \in CreatedBookings(n)

NextBackfill ==
    \/ BackfillCollect
    \/ BackfillSkip
    \/ UpdateBookingDatesStart
    \/ UpdateBookingDate
    \/ UpdateBookingDatesReturn

SpecBackfill == InitBackfill /\ [][NextBackfill]_vars

(***************************************************************************)
(* update_booking_dates, update_session_speaker_dates and                  *)
(* update_material_dates called with any entity list and date list         *)
(* (date_management.py 215-303). created_bookings holds the entity list    *)
(* and booking_dates_list the date list of the call.                       *)
(***************************************************************************)
UpdateFunctions == {"update_booking_dates", "update_session_speaker_dates",
                    "update_material_dates"}

\* the ids an entity may carry: a booking or material has 'id', an assignment has
\* 'sessionId' and 'speakerId'
EntityIds(f, i) ==
    IF f = "update_session_speaker_dates"
    THEN {[sessionId |-> ss, speakerId |-> sp] :
             ss \in {None, "ss:" \o ToString(i)}, sp \in {None, "sp:" \o ToString(i)}}
    ELSE {[id |-> id] : id \in {None, "id:" \o ToString(i)}}
EntityLists(f, n) ==
    {l \in [1..n -> UNION {EntityIds(f, i) : i \in 1..n}] : \A i \in 1..n : l[i] \in EntityIds(f, i)}
\* "if booking_id and ...", "if session_id and speaker_id and ...", "if material_id and ..."
HasId(f, entity) ==
    IF f = "update_session_speaker_dates"
    THEN Truthy(entity.sessionId) /\ Truthy(entity.speakerId)
    ELSE Truthy(entity.id)
\* what the request names the entity by
EntityKey(f, entity) ==
    IF f = "update_session_speaker_dates" THEN <<entity.sessionId, entity.speakerId>>
    ELSE <<entity.id>>
\* the date lists of a call: k dates, one hour apart
DateLists(k) == {[i \in 1..k |-> 20 * MinutesPerDay + i * 60]}

UpdateFrame ==
    /\ UNCHANGED mainOnlyVars
    /\ UNCHANGED <<users, exc, fn, events, speaker_emails, published_events, pending,
                   last_call, created_bookings>>
    /\ UNCHANGED <<login_resps, successful_bookings, failed_bookings, user_token, booked, runs>>
    /\ UNCHANGED <<inviteVars, acceptVars, eventVars, dataVars, credVars>>
    /\ UNCHANGED <<num, event_start_date, creation_dates>>

\* 227-234, 257-263, 288-294: updated = 0 and the padding of the date list
UpdateDatesStart ==
    /\ fn \in UpdateFunctions /\ pc = "call"
    /\ \E now \in Now :
         LET base_date == IF booking_dates_list # <<>>
                          THEN booking_dates_list[Len(booking_dates_list)] ELSE now
         IN  booking_dates_list' =
                 IF Len(booking_dates_list) < Len(created_bookings)
                 THEN PadDates(booking_dates_list, base_date,
                               Len(created_bookings) - Len(booking_dates_list))
                 ELSE booking_dates_list
    /\ updated' = 0
    /\ idx' = 0
    /\ pc' = "zip"
    /\ UNCHANGED <<log, faults, ret, calls>>
    /\ UpdateFrame

\* 236-241, 265-272, 296-302: one pair of the zip
UpdateDate ==
    /\ fn \in UpdateFunctions /\ pc = "zip"
    /\ idx < Min(Len(created_bookings), Len(booking_dates_list))
    /\ LET entity == created_bookings[idx + 1]
           date == booking_dates_list[idx + 1]
       IN  IF HasId(fn, entity)
           THEN \E resp \in {UpdateOk} \cup (IF faults < MaxFaults THEN UpdateFaults ELSE {}) :
                    /\ log' = Append(log, Req("update_date", EntityKey(fn, entity),
                                              IsoFormat(date)))
                    /\ calls' = Append(calls, Call(EntityKey(fn, entity), IsoFormat(date),
                                                   <<UpdateBookingCreationDate(resp)>>))
                    /\ faults' = IF resp = UpdateOk THEN faults ELSE faults + 1
                    /\ updated' = IF UpdateBookingCreationDate(resp) THEN updated + 1 ELSE updated
           ELSE UNCHANGED <<log, calls, faults, updated>>
    /\ idx' = idx + 1
    /\ UNCHANGED <<pc, ret, booking_dates_list>>
    /\ UpdateFrame

\* 242, 273, 303: return updated
UpdateDatesReturn ==
    /\ fn \in UpdateFunctions /\ pc = "zip"
    /\ idx = Min(Len(created_bookings), Len(booking_dates_list))
    /\ ret' = Returned("int", updated)
    /\ pc' = "returned"
    /\ UNCHANGED <<idx, log, calls, faults, updated, booking_dates_list>>
    /\ UpdateFrame

InitUpdateDates ==
    /\ MainIdle
    /\ pc = "call" /\ exc = "" /\ log = <<>> /\ faults = 0
    /\ published_events = <<>> /\ idx = 0 /\ pending = <<>> /\ login_resps = <<>>
    /\ calls = <<>> /\ last_call = NoCall
    /\ successful_bookings = 0 /\ failed_bookings = 0
    /\ ret = NotReturned /\ user_token = None /\ booked = {} /\ runs = 0
    /\ speaker_profiles = <<>> /\ stats = NoStats /\ invitation_data = <<>>
    /\ accepted_event_ids = <<>> /\ num_left = 0
    /\ registered = <<>> /\ attempt = NoAttempt
    /\ SpeakerServiceEmpty
    /\ NoEventDates
    /\ num = 0 /\ event_start_date = None /\ creation_dates = <<>> /\ updated = 0
    /\ events = <<>> /\ users = <<>> /\ speaker_emails = <<>>
    /\ fn \in UpdateFunctions
    /\ \E n \in 0..MaxDates :
        /\ created_bookings \in EntityLists(fn, n)
        /\ \E k \in 0..(n + 1) : booking_dates_list \in DateLists(k)

NextUpdateDates == UpdateDatesStart \/ UpdateDate \/ UpdateDatesReturn

SpecUpdateDates == InitUpdateDates /\ [][NextUpdateDates]_vars

(***************************************************************************)
(* Properties of a run of seed.py (SpecMain)                               *)
(***************************************************************************)
LoginAttempted == \E k \in DOMAIN log : log[k].kind = "admin_login"

\* the ways an answer to the admin login is a failed login
LoginAnswerFails(r) == r.exc # "" \/ r.status # 200 \/ ~r.json \/ r.token = "" \/ r.id = ""

RegistrationReturned == \E k \in DOMAIN stages : stages[k] = "UsersRegistered"

Interrupted == exc = "KeyboardInterrupt"

\* C1: a run in which the connectivity check passes, the admin login returns a
\* token and a user id and every call is answered with its success code ends
\* with exit code 0 and no exception, having registered 5 speakers and 10 users.
C1_EndToEndSuccess ==
    (/\ pc = "exit" /\ conn_ok /\ LoginAttempted /\ ~LoginAnswerFails(login_resp)
     /\ faults = 0 /\ outage = "none" /\ ~Interrupted)
    => (exit_code = 0 /\ exc = "" /\ Len(speakers) = 5 /\ Len(users) = 10)

\* C2: when the admin login fails (no answer, a status other than 200, or a 200
\* without token or without user id) main has exited with code 1 and the login
\* is the last request of the run.
C2_AdminLoginFatal ==
    (LoginAttempted /\ LoginAnswerFails(login_resp))
    => (pc = "exit" /\ exit_code = 1 /\ log[Len(log)].kind = "admin_login")

C2_Witness ==
    /\ pc = "exit" /\ LoginAttempted
    /\ login_resp.status = 200 /\ login_resp.token # "" /\ login_resp.id = ""

\* the stage a request belongs to: 0 is the connectivity check
RequestStage(kind) ==
    CASE kind \in {"health", "probe"} -> 0
      [] kind = "admin_login" -> 1
      [] kind \in {"register", "login"} -> 2
      [] OTHER -> 3

IsPrefix(s, t) == Len(s) <= Len(t) /\ \A k \in DOMAIN s : s[k] = t[k]

\* C3: the stages are entered in the order of the state machine, none twice,
\* and no request of a later stage precedes a request of an earlier one; a
\* request of the registration stage is only issued once the admin is
\* authenticated.
C3_StageOrder ==
    /\ IsPrefix(stages, StageOrder)
    /\ \A i \in 1..(Len(log) - 1) : RequestStage(log[i].kind) <= RequestStage(log[i + 1].kind)
    /\ \A k \in DOMAIN log : RequestStage(log[k].kind) = 2 =>
           (Len(stages) >= 1 /\ stages[1] = "AdminAuthenticated")

C3_Witness ==
    /\ stages = <<"AdminAuthenticated", "UsersRegistered">>
    /\ \E i, j \in DOMAIN log : i < j /\ log[i].kind = "admin_login" /\ log[j].kind = "register"

\* C4: when a stage after admin authentication finds its prerequisite empty
\* (here: no speaker or no user was registered) the run goes on to the summary
\* without an exception.
C4_EmptyPrerequisiteSkips ==
    (/\ pc = "exit" /\ RegistrationReturned /\ ~Interrupted
     /\ (speakers = <<>> \/ users = <<>>))
    => (exc = "" /\ exit_code = 0)

\* the user was asked "Continue anyway?" and did not answer y or Y
Declined == prompt_answer # None /\ prompt_answer \notin {"y", "Y"}

\* an exception other than SystemExit and KeyboardInterrupt reached __main__
ExceptionEscaped == exc \notin {"", "SystemExit", "KeyboardInterrupt"}

\* C5 as stated: the exit code is 1 exactly when the admin login failed, the
\* user interrupted the run or an exception escaped main; 0 otherwise, also
\* after a failed connectivity check.
C5_ExitCodeClaim ==
    pc = "exit" =>
        (exit_code = 1 <=> \/ (LoginAttempted /\ LoginAnswerFails(login_resp))
                           \/ Interrupted
                           \/ ExceptionEscaped)

\* C5 amended: the exit code is 1 exactly when the connectivity check failed
\* and the user did not answer y, the admin login failed, the user interrupted
\* the run or an exception escaped main; 0 otherwise.
C5_ExitCodeAmended ==
    pc = "exit" =>
        /\ exit_code \in {0, 1}
        /\ exit_code = 1 <=> \/ (~conn_ok /\ Declined)
                             \/ (LoginAttempted /\ LoginAnswerFails(login_resp))
                             \/ Interrupted
                             \/ ExceptionEscaped

C5_Witness ==
    pc = "exit" /\ ~conn_ok /\ Declined /\ ~LoginAttempted /\ ~Interrupted /\ exit_code = 1

RegisterRequests == SelectSeq(log, LAMBDA r : r.kind = "register")

\* the email attempt k registers: speaker1..5, then user1..10
ExpectedEmails ==
    [k \in 1..15 |-> (IF k <= 5 THEN "speaker" \o ToString(k)
                      ELSE "user" \o ToString(k - 5)) \o "@test.com"]

RECURSIVE KeptEmails(_, _, _)
\* the emails of attempts from..to whose register_user call returned success
KeptEmails(results, from, to) ==
    IF from > to THEN <<>>
    ELSE (IF results[from] THEN <<ExpectedEmails[from]>> ELSE <<>>)
         \o KeptEmails(results, from + 1, to)

EmailsOf(list) == [k \in DOMAIN list |-> list[k].email]

\* C6: attempt k of a run registers speaker1..5 then user1..10, whatever the
\* earlier attempts returned; once seed_users_and_speakers has returned there
\* were exactly 15 attempts; and the three lists hold exactly the emails whose
\* register_user call returned success.
C6_RegistrationSkipAndContinue ==
    /\ Len(RegisterRequests) = reg_i - 1
    /\ Len(reg_results) = reg_i - 1
    /\ \A k \in DOMAIN RegisterRequests : RegisterRequests[k].who = ExpectedEmails[k]
    /\ RegistrationReturned => Len(RegisterRequests) = 15
    /\ all_user_emails = KeptEmails(reg_results, 1, reg_i - 1)
    /\ EmailsOf(speakers) = KeptEmails(reg_results, 1, Min(5, reg_i - 1))
    /\ EmailsOf(users) = KeptEmails(reg_results, 6, reg_i - 1)

C6_Witness ==
    /\ RegistrationReturned
    /\ \E k \in DOMAIN reg_results : ~reg_results[k] /\ k < 15 /\ reg_results[k + 1]

\* the latest register request was answered 400 with an 'already exists' error
AnsweredAlreadyExists ==
    /\ reg_resp.exc = "" /\ reg_resp.status = 400 /\ reg_resp.json
    /\ reg_resp.error \in {"User with this email already exists", "USER ALREADY EXISTS"}

LastResult == reg_last

\* C7 as stated: an 'already exists' 400 makes register_user return success,
\* with the user id of the login answer when the login answers 200 and None
\* when the login fails; any other 400 is a failure.
C7_ReRegistrationClaim ==
    reg_results # <<>> =>
        /\ AnsweredAlreadyExists =>
              /\ LastResult[1]
              /\ (reg_login_resp.exc = "" /\ reg_login_resp.status = 200 /\ reg_login_resp.json)
                    => LastResult[2] = reg_login_resp.id
              /\ (reg_login_resp.exc # "" \/ reg_login_resp.status # 200) => LastResult[2] = None
        /\ (reg_resp.exc = "" /\ reg_resp.status = 400 /\ ~AnsweredAlreadyExists) => ~LastResult[1]

\* C7 amended: an 'already exists' 400 makes register_user return success,
\* with the user id of the login answer when the login answers 200 with a
\* non-empty user id, and None when the login fails or its answer carries no
\* user id; any other 400 is a failure.
C7_ReRegistrationAmended ==
    reg_results # <<>> =>
        /\ AnsweredAlreadyExists =>
              /\ LastResult[1]
              /\ LastResult[3] = 400
              /\ IF /\ reg_login_resp.exc = "" /\ reg_login_resp.status = 200
                    /\ reg_login_resp.json /\ reg_login_resp.id # ""
                 THEN LastResult[2] = reg_login_resp.id
                 ELSE LastResult[2] = None
        /\ (reg_resp.exc = "" /\ reg_resp.status = 400 /\ ~AnsweredAlreadyExists) => ~LastResult[1]

C7_Witness ==
    /\ reg_results # <<>> /\ AnsweredAlreadyExists
    /\ reg_resp.error = "USER ALREADY EXISTS"
    /\ reg_login_resp.status = 200 /\ reg_login_resp.id # "" /\ LastResult[2] = reg_login_resp.id

\* the status the created-events list gives the event with this id, None if it has none
StatusInList(event_id) ==
    IF \E i \in DOMAIN events : events[i].id = event_id
    THEN (CHOOSE e \in {events[i] : i \in DOMAIN events} : e.id = event_id).status
    ELSE None

\* the booking and invitation requests issued so far
CreationRequests == SelectSeq(log, LAMBDA r : r.kind \in {"booking", "invitation"})

\* C8: no booking request and no invitation request is ever issued for an event whose
\* status in the created-events list is not PUBLISHED.
C8_OnlyPublishedRequested ==
    \A k \in DOMAIN CreationRequests : StatusInList(CreationRequests[k].what) = "PUBLISHED"

\* an invitation function that was given a DRAFT event among PUBLISHED ones has issued
\* its invitations and returned
C8_Witness ==
    /\ fn \in InviteFunctions
    /\ pc = "returned"
    /\ \E i \in DOMAIN events : events[i].status = "DRAFT"
    /\ Len(CreationRequests) >= 2

\* the booking requests issued for this user
BookingRequestsOf(email) == SelectSeq(log, LAMBDA r : r.kind = "booking" /\ r.who = email)

\* a login that gave a token
UserLoginSucceeded(r) == r.exc = "" /\ r.status = 200 /\ r.json /\ r.token # ""

NumPublished == Cardinality({i \in DOMAIN events : events[i].status = "PUBLISHED"})

\* the loop over users is past user j
UserDone(j) == idx > j \/ pc = "returned"

\* C9: for every user whose login succeeds the booking functions submit between 1 and
\* min(4, number of published events) booking requests, each for a different event; a
\* user whose login fails submits none and the loop continues with the next user.
C9_BookingSampling ==
    fn \in BookingFunctions =>
        /\ \A j \in DOMAIN login_resps :
            LET reqs == BookingRequestsOf(users[j].email)
            IN  IF UserLoginSucceeded(login_resps[j])
                THEN /\ Len(reqs) <= Min(4, NumPublished)
                     /\ \A a, b \in DOMAIN reqs : a # b => reqs[a].what # reqs[b].what
                     /\ UserDone(j) => Len(reqs) >= 1
                ELSE /\ reqs = <<>>
                     /\ UserDone(j)
                     /\ exc = ""
        /\ \A k \in DOMAIN log :
            log[k].kind = "booking" =>
                \E j \in DOMAIN login_resps : users[j].email = log[k].who
        /\ (pc = "returned" /\ ret.shape = "pair" /\ NumPublished > 0 /\ users # <<>>)
            => Len(login_resps) = Len(users)

\* the first of two users failed to log in, the second booked two events, and the
\* function returned
C9_Witness ==
    /\ fn \in BookingFunctions
    /\ pc = "returned"
    /\ Len(login_resps) = 2
    /\ ~UserLoginSucceeded(login_resps[1])
    /\ UserLoginSucceeded(login_resps[2])
    /\ Len(BookingRequestsOf(users[2].email)) = 2

\* the create_booking calls made for a (user, event) pair, in order
CallsFor(who, what) == SelectSeq(calls, LAMBDA c : c.who = who /\ c.what = what)

\* the create_booking calls of the current start of the stage
CallsOfRun == SelectSeq(calls, LAMBDA c : c.run = runs)
RefusedOfRun == SelectSeq(CallsOfRun, LAMBDA c : c.result = <<FALSE, None>>)

\* C10: against a booking service that accepts the first booking of a (user, event) pair
\* with 201 and answers 409 to any later one, two create_booking calls for the same pair
\* yield one (True, id) and then one (False, None); the 409 is counted in
\* failed_bookings, adds nothing to created_bookings, and does not stop the stage.
C10_DuplicateBooking ==
    /\ \A j \in DOMAIN users : \A i \in DOMAIN events :
        LET cs == CallsFor(users[j].email, events[i].id)
        IN  /\ Len(cs) <= 2
            /\ Len(cs) >= 1 => cs[1].result[1] /\ cs[1].result[2] \notin {None, ""}
            /\ Len(cs) = 2 => cs[2].result = <<FALSE, None>>
    /\ last_call.resp.exc = "" /\ last_call.resp.status = 409
        => /\ last_call.result = <<FALSE, None>>
           /\ exc = ""
           /\ pc \in {"event_loop", "user_loop", "returned"}
    /\ pc \in {"event_loop", "user_loop", "returned"} /\ published_events # <<>>
        => /\ failed_bookings = Len(RefusedOfRun)
           /\ Len(created_bookings) = Len(CallsOfRun) - Len(RefusedOfRun)
           /\ successful_bookings = Len(created_bookings)
           /\ \A k \in DOMAIN RefusedOfRun : \A b \in DOMAIN created_bookings :
                created_bookings[b].id #
                    ServerBookingId(RefusedOfRun[k].who, RefusedOfRun[k].what)

\* the second start of the stage got a 409 for a pair booked before, went on to book
\* another event, and returned
C10_Witness ==
    /\ runs = 1
    /\ pc = "returned"
    /\ \E a, b \in DOMAIN CallsOfRun :
        /\ a < b
        /\ CallsOfRun[a].result = <<FALSE, None>>
        /\ Len(CallsFor(CallsOfRun[a].who, CallsOfRun[a].what)) = 2
        /\ CallsOfRun[b].result[1]
    /\ failed_bookings >= 1
    /\ successful_bookings >= 1

\* the invitation requests issued for this speaker
InvitationRequestsOf(email) ==
    SelectSeq(log, LAMBDA r : r.kind = "invitation" /\ r.who = email)

\* the invitation stage is past profile j: the loop moved on, or the function ended
ProfileDone(j) ==
    \/ pc \in {"returned", "raised"}
    \/ pc \in {"speaker_loop", "invite_loop"} /\ idx > j

\* C11: for every speaker profile found the invitation stage issues between 2 and 4
\* invitation requests, each for a different published event; invitations_created never
\* exceeds 4 times the number of speaker profiles and no pair is invited twice.
\* (A stage that finds no published event has nothing to invite to.)
C11_InvitationBound ==
    fn \in InviteFunctions =>
        /\ \A j \in DOMAIN speaker_profiles :
            LET reqs == InvitationRequestsOf(speaker_profiles[j].email)
            IN  /\ Len(reqs) <= 4
                /\ \A a, b \in DOMAIN reqs : a # b => reqs[a].what # reqs[b].what
                /\ \A a \in DOMAIN reqs : StatusInList(reqs[a].what) = "PUBLISHED"
                /\ (ProfileDone(j) /\ NumPublished >= 1) => Len(reqs) >= 2
        /\ stats.invitations_created <= 4 * Len(speaker_profiles)

\* the respond calls made for this invitation
RespondCallsFor(id) == SelectSeq(calls, LAMBDA c : c.what = id)

\* every respond request so far was answered 200
AllRespondsSucceeded == \A k \in DOMAIN calls : calls[k].result[2]

\* C12: for every PENDING invitation fetched for a speaker who logged in, exactly one
\* respond request is issued, with status ACCEPTED or DECLINED; hence when the respond
\* endpoint answers 200, no fetched invitation is still PENDING after the pass.
C12_InvitationResolution ==
    (fn \in AcceptFunctions /\ pc = "returned") =>
        /\ \A id \in fetched :
            /\ Len(RespondCallsFor(id)) = 1
            /\ RespondCallsFor(id)[1].result[1] \in {"ACCEPTED", "DECLINED"}
        /\ AllRespondsSucceeded =>
            \A k \in DOMAIN invitations :
                invitations[k].id \in fetched => invitations[k].status # "PENDING"

(***************************************************************************)
(* Properties of the event and session windows (SpecEvents)                *)
(***************************************************************************)
\* the window of the event has been adjusted to the venue
Adjusted == fn = "create_event" /\ pc \in {"adjusted", "session"}

\* minutes since midnight of a datetime
TimeOfDay(t) == t % MinutesPerDay

\* C13: for every candidate of generate_event_dates and every venue, the window
\* adjust_event_times_for_venue returns has its start strictly before its end.
C13_StartBeforeEnd == Adjusted => start_date < end_date

\* a window on which the clipping inverted the order, after the adjustment
C13_Witness ==
    /\ Adjusted
    /\ AdjustEnd(candidate[2], venue.closingTime) <= AdjustStart(candidate[1], venue.openingTime)
    /\ start_date < end_date

\* C14: the adjusted window lies within the venue's operating hours, that is
\* validate_event_time_against_venue returns True on it.
C14_WithinVenueHours ==
    Adjusted =>
        ValidateEventTimeAgainstVenue(start_date, end_date, venue.openingTime, venue.closingTime)

\* the candidate window clipped to the venue's hours, by time of day
ClippedStart ==
    IF TimeOfDay(candidate[1]) < TimeToMinutes(venue.openingTime)
    THEN candidate[1] - TimeOfDay(candidate[1]) + TimeToMinutes(venue.openingTime)
    ELSE candidate[1]
ClosingMinutes ==
    IF TimeToMinutes(venue.closingTime) >= MinutesPerDay
    THEN MinutesPerDay - 1
    ELSE TimeToMinutes(venue.closingTime)
ClippedEnd ==
    IF TimeOfDay(candidate[2]) > ClosingMinutes
    THEN candidate[2] - TimeOfDay(candidate[2]) + ClosingMinutes
    ELSE candidate[2]

\* C15: when clipping the candidate window to the venue's hours leaves end <= start,
\* the returned end is the returned start plus 2 hours; in every other case it is the
\* (possibly clipped) candidate end.
C15_MinimumDuration ==
    Adjusted =>
        /\ start_date = ClippedStart
        /\ end_date = IF ClippedEnd <= ClippedStart THEN ClippedStart + 120 ELSE ClippedEnd

\* an inverted window that got the minimum duration
C15_Witness ==
    /\ Adjusted
    /\ ClippedEnd <= ClippedStart
    /\ end_date = start_date + 120

\* C16: the session window lies strictly inside the event window and lasts at least
\* one hour, on the margin path and on the fallback path.
C16_SessionInside ==
    (fn = "create_event" /\ pc = "session") =>
        /\ start_date < session_start
        /\ session_start < session_end
        /\ session_end < end_date
        /\ session_end - session_start >= 60

(***************************************************************************)
(* Properties of the date generators (SpecDates)                           *)
(***************************************************************************)
BeforeEventFunctions == DateFunctions \ {"generate_activation_dates"}

\* C17: every date generate_booking_dates, generate_invitation_dates and
\* generate_material_upload_dates return is strictly before the event start, for
\* every choice of the day, hour and minute offsets.
C17_DatesBeforeEventStart ==
    (fn \in BeforeEventFunctions /\ pc = "returned") =>
        /\ Len(ret.value) = num
        /\ \A i \in DOMAIN ret.value : ret.value[i] < event_start_date

\* a list of two dates, the later one as late as the offsets allow
C17_Witness ==
    /\ fn \in BeforeEventFunctions /\ pc = "returned"
    /\ Len(ret.value) = 2
    /\ ret.value[1] < ret.value[2]
    /\ event_start_date - ret.value[2] < 7 * 60

\* the calendar day of a datetime
CalendarDay(t) == t \div MinutesPerDay

\* C19: generate_activation_dates returns one activation date per creation date, each
\* strictly after its creation date and on the same calendar day.
C19_ActivationSameDay ==
    (fn = "generate_activation_dates" /\ pc = "returned") =>
        /\ Len(ret.value) = Len(creation_dates)
        /\ \A i \in DOMAIN ret.value :
            /\ ret.value[i] > creation_dates[i]
            /\ CalendarDay(ret.value[i]) = CalendarDay(creation_dates[i])

(***************************************************************************)
(* Properties of the booking date backfill (SpecBackfill)                  *)
(***************************************************************************)
\* the update requests sent so far
DateUpdates == SelectSeq(log, LAMBDA r : r.kind = "update_booking_date")

\* the entry of created_bookings with this id
BookingOf(id) == CHOOSE b \in {created_bookings[k] : k \in DOMAIN created_bookings} : b.id = id

\* C18: the creation date sent to the update endpoint for a booking is strictly before
\* the start of the event of that same booking, also when some bookings carry no
\* eventStartDate and when the date list is padded.
C18_BackfillBeforeOwnEvent ==
    fn = "update_booking_dates" =>
        \A k \in DOMAIN DateUpdates :
            LET booking == BookingOf(DateUpdates[k].who)
            IN  booking.eventStartDate # NoIsoString =>
                    DateUpdates[k].what.minutes < FromIsoFormat(booking.eventStartDate)

(***************************************************************************)
(* Properties of the server-error flag (SpecMain)                          *)
(***************************************************************************)
\* the latest registration request was answered with a server error
ServerErrorAnswered == reg_resp.exc = "" /\ reg_resp.status \in {500, 502, 503}

\* C20: once a registration request was answered 500, 502 or 503 the error flag of
\* seed_users_and_speakers is set (and later surfaced in the summary); the run goes on.
C20_ServerErrorFlag == ServerErrorAnswered => got_502_errors

(***************************************************************************)
(* Properties of the invitation stage with few published events            *)
(* (SpecStages)                                                            *)
(***************************************************************************)
\* C30: with at least one speaker profile whose answer carries an id and at least one
\* published event, the invitation functions return their statistics without raising.
C30_InvitationStageCompletes ==
    (/\ fn \in InviteFunctions
     /\ NumPublished >= 1
     /\ Len(speaker_profiles) >= 1
     /\ \A j \in DOMAIN speaker_profiles : speaker_profiles[j].id # None)
        => pc # "raised"

\* the uploads requested for one speaker, and the event ids of the invitations of that
\* speaker that the service holds as ACCEPTED
UploadsOf(email) == SelectSeq(calls, LAMBDA c : c.who = email)
AcceptedAtLookup(email) ==
    {invitations[k].eventId : k \in {n \in DOMAIN invitations :
        invitations[n].speaker = email /\ invitations[n].status = "ACCEPTED"}}
MaterialsDone(j) ==
    \/ pc \in {"messages", "send"}
    \/ pc = "returned" /\ ret = Returned("stats", stats)
    \/ pc \in {"materials", "upload"} /\ j < idx
LookupFailed(resp) == ~(resp.exc = "" /\ resp.status = 200 /\ resp.json)
C22_Uploads ==
    (fn = "seed_speaker_data" /\ pc \notin {"start", "profiles"}) =>
        /\ \A k \in DOMAIN calls :
              \/ calls[k].what = None
              \/ calls[k].what \in AcceptedAtLookup(calls[k].who)
        /\ \A j \in DOMAIN speaker_profiles :
              MaterialsDone(j) =>
                  Len(UploadsOf(speaker_profiles[j].email)) \in MinMaterials..MaxMaterials
C22_AfterLookup ==
    /\ (pc = "materials" /\ pc' = "upload" /\ LookupFailed(last_call'.resp))
          => accepted_event_ids' = <<>>
    /\ (pc = "upload" /\ accepted_event_ids = <<>> /\ calls' # calls)
          => calls'[Len(calls')].what = None

\* C22: every speaker profile found gets between 1 and 3 upload requests; the event id
\* of an upload is absent or the event id of an ACCEPTED invitation of the same speaker;
\* after a failed lookup, or without an ACCEPTED invitation, every upload is untagged.
C22_Materials == []C22_Uploads /\ [][C22_AfterLookup]_vars

\* two speakers have their materials, one upload is tagged with an accepted event and
\* one speaker has three uploads
C22_Witness ==
    /\ fn = "seed_speaker_data"
    /\ pc = "returned"
    /\ Len(speaker_profiles) = 2
    /\ \E k \in DOMAIN calls : calls[k].what # None
    /\ \E j \in DOMAIN speaker_profiles : Len(UploadsOf(speaker_profiles[j].email)) = MaxMaterials


ProfileStages == InviteFunctions \cup {"seed_speaker_data"}
RequestsOfKind(kind, email) == SelectSeq(log, LAMBDA r : r.kind = kind /\ r.who = email)
HasProfile(email) == \E j \in DOMAIN speaker_profiles : speaker_profiles[j].email = email
\* the profile of a speaker was asked for in this step and the answer was 404
ProfileNotReady ==
    /\ pc = "profiles"
    /\ idx' = idx + 1
    /\ last_call'.what = "profile"
    /\ last_call'.resp.exc = "" /\ last_call'.resp.status = 404
C27_Lookups ==
    fn \in ProfileStages =>
        /\ \A k \in DOMAIN speaker_emails :
              /\ Len(RequestsOfKind("profile", speaker_emails[k])) <= 1
              /\ Len(RequestsOfKind("login", speaker_emails[k])) <= 1
              /\ (pc \notin {"start", "profiles"} /\ ret \notin {InviteEarlyReturn, SpeakerDataEarlyReturn})
                    => Len(RequestsOfKind("login", speaker_emails[k])) = 1
        /\ \A k \in DOMAIN log :
              log[k].kind \in {"invitation", "invitations", "upload", "message"}
                  => HasProfile(log[k].who)
        /\ (pc \notin {"start", "profiles"} /\ speaker_profiles = <<>>)
              => /\ pc = "returned"
                 /\ ret = IF fn = "seed_speaker_data" THEN SpeakerDataEarlyReturn
                          ELSE InviteEarlyReturn
C27_NotReady ==
    (fn \in ProfileStages /\ ProfileNotReady) =>
        /\ speaker_profiles' = speaker_profiles
        /\ pc' = "profiles"
        /\ LET email == speaker_emails[idx]
           IN  Len(SelectSeq(log', LAMBDA r : r.kind = "profile" /\ r.who = email)) = 1

\* C27: a speaker whose profile lookup answers 404 is looked up once in the stage and gets
\* no profile entry, hence no invitation and no material; the loop goes on with the next
\* speaker; a stage that finds no profile returns its zero counts and does not raise.
C27_ProfileNotReady == []C27_Lookups /\ [][C27_NotReady]_vars

\* the second of two speakers got a 404 for its profile, the first one has its profile,
\* and the stage went on to the materials of the first
C27_Witness ==
    /\ fn = "seed_speaker_data"
    /\ Len(speaker_emails) = 2
    /\ Len(speaker_profiles) = 1
    /\ last_call.what = "profile" /\ last_call.resp.exc = "" /\ last_call.resp.status = 404
    /\ pc = "materials"


\* the request just sent, if this step sent one
Sent(kind) == Len(log') > Len(log) /\ log'[Len(log')].kind = kind
\* C21, the requests of one stage call: no register, booking or invitation request (nor
\* the message of an invitation) is sent for an item that was requested before, and a
\* speaker gets at most the drawn number of uploads and messages
OncePerItem(kind) == kind \in {"register", "booking", "invitation"} \/
                     (kind = "message" /\ fn \in InviteFunctions)
C21_Once ==
    /\ \A n \in (Len(log) + 1)..Len(log') :
          OncePerItem(log'[n].kind) => \A i \in 1..(n - 1) : log'[i] # log'[n]
    /\ (fn = "seed_speaker_data" /\ (Sent("upload") \/ Sent("message"))) =>
          LET email == log'[Len(log')].who
          IN  /\ Len(SelectSeq(log', LAMBDA r : r.kind = "upload" /\ r.who = email))
                    <= MaxMaterials
              /\ Len(SelectSeq(log', LAMBDA r : r.kind = "message" /\ r.who = email))
                    <= MaxMessages
\* C21, a failed item: the success counter stays, the loop moves to the next item and
\* the function neither raises nor stops
C21_FailureSkips ==
    /\ (pc = "register" /\ reg_i' = reg_i + 1 /\ ~reg_last'[1])
          => /\ speakers' = speakers /\ users' = users /\ all_user_emails' = all_user_emails
             /\ pc' \in {"register", "unpack"}
    /\ (fn \in BookingFunctions /\ Sent("booking") /\ ~BookingCounts(last_call'.result))
          => /\ successful_bookings' = successful_bookings
             /\ created_bookings' = created_bookings
             /\ pending' = Tail(pending)
             /\ pc' \in {"event_loop", "user_loop"}
    /\ (fn \in InviteFunctions /\ Sent("invitation") /\ last_call'.result.is_none)
          => /\ stats' = stats
             /\ pending' = Tail(pending)
             /\ pc' \in {"invite_loop", "speaker_loop"}
    /\ (fn = "seed_speaker_data" /\ Sent("upload") /\ ~last_call'.result[1])
          => /\ stats' = stats
             /\ num_left' = num_left - 1
             /\ pc' \in {"upload", "materials", "messages"}
    /\ (fn = "seed_speaker_data" /\ Sent("message") /\ ~last_call'.result[1])
          => /\ stats' = stats
             /\ num_left' = num_left - 1
             /\ pc' \in {"send", "messages"}

\* C21: no creation request is sent twice for the same item in a run, and a failed item
\* is skipped: its success counter is not incremented and the loop goes on.
C21_NoRetry == [][C21_Once /\ C21_FailureSkips]_vars

\* a booking function returned after one booking failed and a later one succeeded
C21_Witness ==
    /\ fn \in BookingFunctions
    /\ pc = "returned"
    /\ failed_bookings = 1
    /\ successful_bookings >= 1
    /\ ~BookingCounts(calls[1].result)


\* C23: with ADMIN_EMAIL and ADMIN_PASSWORD not set in the environment, the admin login
\* request of step 0 carries the credentials that the failure message of step 0 names
\* as the seeded defaults.
C23_DefaultAdminCredentials ==
    \A k \in DOMAIN log :
        log[k].kind = "admin_login"
            => log[k].who = SeededAdminEmail /\ log[k].what = SeededAdminPassword


\* the latest booking request of the user now served was answered 401
TokenRejected ==
    /\ fn \in BookingFunctions
    /\ pc = "event_loop"
    /\ last_call # NoCall
    /\ last_call.who = users[idx].email
    /\ last_call.resp.exc = "" /\ last_call.resp.status = 401
C24_StopsAfterRejection == TokenRejected => ~Sent("booking")

\* C24: a 401 answer to a request made in a stage ends that stage: no further request
\* is sent with the token that was rejected (tokens are never refreshed).
C24_TokenExpiry == [][C24_StopsAfterRejection]_vars


BookingRequests == SelectSeq(log, LAMBDA r : r.kind = "booking")
AnsweredWithId(resp) == resp.exc = "" /\ resp.status = 201 /\ resp.json /\ Truthy(resp.id)
C29_Counters ==
    fn \in BookingFunctions =>
        /\ successful_bookings = Len(created_bookings)
        /\ \A k \in DOMAIN created_bookings : Truthy(created_bookings[k].id)
        /\ successful_bookings + failed_bookings = Len(BookingRequests)
C29_CountedIffCreated ==
    (fn \in BookingFunctions /\ Sent("booking")) =>
        IF AnsweredWithId(last_call'.resp)
        THEN /\ successful_bookings' = successful_bookings + 1
             /\ failed_bookings' = failed_bookings
        ELSE /\ successful_bookings' = successful_bookings
             /\ failed_bookings' = failed_bookings + 1

\* C29: at every point of the booking functions successful_bookings is the length of
\* created_bookings, every entry there has a booking id, successful_bookings +
\* failed_bookings is the number of booking requests sent, and an attempt is counted
\* as successful exactly when its answer was a 201 with an id.
C29_BookingAccounting == []C29_Counters /\ [][C29_CountedIffCreated]_vars

\* a 201 answer without an id was counted as failed after another booking succeeded
C29_Witness ==
    /\ fn \in BookingFunctions
    /\ last_call # NoCall
    /\ last_call.resp.exc = "" /\ last_call.resp.status = 201 /\ last_call.resp.json
    /\ last_call.resp.id = ""
    /\ failed_bookings = 1
    /\ successful_bookings >= 1


\* the password an email was registered with
PasswordOf(email) ==
    LET k == CHOOSE n \in DOMAIN registered : registered[n].email = email
    IN  registered[k].password

\* C28: the password a later stage derives from the email of user1..10 or speaker1..5
\* is the password that email was registered with.
C28_CredentialRoundTrip ==
    attempt # NoAttempt =>
        /\ \E n \in DOMAIN registered : registered[n].email = attempt.email
        /\ attempt.password = PasswordOf(attempt.email)

\* the booking stage prepared the login of user10@test.com
C28_Witness ==
    /\ attempt.stage \in BookingFunctions
    /\ attempt.email = UserWord \o <<"1", "0">> \o TestDomain
    /\ attempt.password = <<"U", "s", "e", "r", "1", "0", "1", "2", "3", "!">>


\* the requests sent in this step, in order
NewRequests == SubSeq(log', Len(log) + 1, Len(log'))
\* this step is the acceptance of the invitation at the head of pending
AcceptsInvitation ==
    /\ fn \in AcceptFunctions
    /\ pc = "respond_loop"
    /\ \E n \in DOMAIN NewRequests :
          NewRequests[n] = Req("respond", speaker_emails[idx], Head(pending).id)
\* the unread invitation messages for the event of that invitation which the service
\* holds for the speaker before the step
UnreadInvitationMessages ==
    SelectSeq(inbox, LAMBDA m : /\ m.to = speaker_emails[idx]
                                /\ m.eventId = Head(pending).eventId
                                /\ m.status # "READ"
                                /\ IsInvitationSubject(m.subject))
MarksBeforeRespond ==
    \E i, j \in DOMAIN NewRequests :
        /\ i < j
        /\ NewRequests[i].kind = "mark_read"
        /\ \E k \in DOMAIN UnreadInvitationMessages :
              UnreadInvitationMessages[k].id = NewRequests[i].what
        /\ NewRequests[j].kind = "respond"
AtMostOneMark ==
    Len(SelectSeq(NewRequests, LAMBDA r : r.kind = "mark_read")) <= 1
C25_AsClaimed ==
    AcceptsInvitation =>
        /\ AtMostOneMark
        /\ UnreadInvitationMessages # <<>> => MarksBeforeRespond
C25_WhenInboxAnswers ==
    AcceptsInvitation =>
        /\ AtMostOneMark
        /\ (UnreadInvitationMessages # <<>> /\ last_call'.result[3]) => MarksBeforeRespond
        /\ \A n \in DOMAIN NewRequests :
              NewRequests[n].kind = "mark_read" =>
                  \E j \in DOMAIN NewRequests : n < j /\ NewRequests[j].kind = "respond"

\* C25 as stated: whenever the service holds an unread invitation message for the event
\* of an invitation that is accepted, its mark-as-read request precedes the respond
\* request, and at most one message is marked per invitation.
C25_ReadBeforeRespondClaim == [][C25_AsClaimed]_vars

\* C25, amended: the same when the inbox request made for that invitation is answered
\* with the speaker's messages; a mark-as-read request is never sent after the respond
\* request, and at most one is sent per invitation.
C25_ReadBeforeRespond == [][C25_WhenInboxAnswers]_vars

\* an accepted invitation whose message was marked read first: the service holds the
\* message as READ and the invitation as ACCEPTED, and the two requests are the latest
C25_Witness ==
    /\ fn \in AcceptFunctions
    /\ Len(log) >= 2
    /\ log[Len(log) - 1].kind = "mark_read"
    /\ log[Len(log)].kind = "respond"
    /\ \E k \in DOMAIN inbox : inbox[k].id = log[Len(log) - 1].what /\ inbox[k].status = "READ"
    /\ \E k \in DOMAIN invitations :
          invitations[k].id = log[Len(log)].what /\ invitations[k].status = "ACCEPTED"


\* the entities of the call that carry their ids, in order
WithIds == SelectSeq(created_bookings, LAMBDA e : HasId(fn, e))
UpdateRequests == SelectSeq(log, LAMBDA r : r.kind = "update_date")
AnsweredOk == SelectSeq(calls, LAMBDA c : c.result[1])
C26_OnePerEntity ==
    (fn \in UpdateFunctions /\ pc = "returned") =>
        /\ Len(UpdateRequests) = Len(WithIds)
        /\ \A k \in DOMAIN WithIds : UpdateRequests[k].who = EntityKey(fn, WithIds[k])
        /\ ret = Returned("int", Len(AnsweredOk))
        /\ Len(AnsweredOk) <= Len(created_bookings)
\* the padding: the list gets as long as the entity list, by dates that are 1, 2, ...
\* days after its last element, or after now when it was empty
C26_Padding ==
    (fn \in UpdateFunctions /\ pc = "call" /\ Len(booking_dates_list) < Len(created_bookings)) =>
        LET k == Len(booking_dates_list)
        IN  /\ Len(booking_dates_list') = Len(created_bookings)
            /\ SubSeq(booking_dates_list', 1, k) = booking_dates_list
            /\ \E base \in (IF k = 0 THEN Now ELSE {booking_dates_list[k]}) :
                  \A i \in (k + 1)..Len(created_bookings) :
                      booking_dates_list'[i] = base + (i - k) * MinutesPerDay

\* C26: each of the three update functions sends exactly one date update for every
\* entity that has its id(s), also when the date list is shorter than the entity list
\* and is padded; the count returned is the number of updates answered 200, at most
\* the number of entities.
C26_OneCallPerEntity == []C26_OnePerEntity /\ [][C26_Padding]_vars

\* update_material_dates returned after it padded an empty date list for two materials,
\* one update was answered 200 and the other was not
C26_Witness ==
    /\ fn = "update_material_dates"
    /\ pc = "returned"
    /\ Len(created_bookings) = 2
    /\ Len(UpdateRequests) = 2
    /\ booking_dates_list[1] \in {now + MinutesPerDay : now \in Now}
    /\ ret = Returned("int", 1)

=============================================================================
